---------------------------- MODULE Spec2Model ----------------------------
(***************************************************************************)
(* A model of the ieee802_3_miim crate: the default methods of the Phy     *)
(* trait (src/src/lib.rs) and the DP83XXX paged accessor with its PTP      *)
(* clock control (src/src/phy/dp83xxx.rs), running against a PHY whose     *)
(* registers are reached through the Miim transport.                       *)
(*                                                                         *)
(* Every transport operation (one Miim read or write) is one step, so the  *)
(* device, and a second accessor on the same bus, can act between two      *)
(* operations of one call.  Each accessor keeps the log of the transport   *)
(* operations its current call has issued.                                 *)
(***************************************************************************)
EXTENDS Integers, Sequences, FiniteSets, TLC

(***************************************************************************)
(* 16-bit words and the bitflags operations.                               *)
(***************************************************************************)
WordBits == 16

Word == 2 ^ WordBits

Bit(n) == 2 ^ n

RECURSIVE AndN(_, _, _)
AndN(a, b, n) ==
    IF n = 0 \/ a = 0 \/ b = 0 THEN 0
    ELSE (a % 2) * (b % 2) + 2 * AndN(a \div 2, b \div 2, n - 1)

And(a, b) == AndN(a, b, WordBits)

Or(a, b) == a + b - And(a, b)

Xor(a, b) == a + b - 2 * And(a, b)

contains(v, flags) == And(v, flags) = flags

insert(v, flags) == Or(v, flags)

is_empty(v) == v = 0

(***************************************************************************)
(* Register addresses and flags of the clause 22 register set.             *)
(***************************************************************************)
Bcr_ADDRESS == 0

Bsr_ADDRESS == 1

PHY_IDENT_1 == 2

PHY_IDENT_2 == 3

LOCAL_CAP_ADDRESS == 4

PARTNER_CAP_ADDRESS == 5

Esr_ADDRESS == 15

Bcr_RESET == Bit(15)

Bcr_SPEED_SEL_LSB == Bit(13)

Bcr_AUTONEG_ENABLE == Bit(12)

Bcr_RESTART_AUTONEG == Bit(9)

Bcr_DUPLEX_MODE == Bit(8)

Bcr_SPEED_SEL_MSB == Bit(6)

\* Bits 15..5 of the control register are flags; bits 4..0 are reserved.
Bcr_all == Word - Bit(5)

Bcr_from_bits_truncate(v) == And(v, Bcr_all)

Bsr_100BASET4 == Bit(15)

Bsr_100BASEXFD == Bit(14)

Bsr_100BASEXHD == Bit(13)

Bsr_10MPBSFD == Bit(12)

Bsr_10MBPSHD == Bit(11)

Bsr_EXTENDED_STATUS == Bit(8)

Bsr_UNIDRECTIONAL == Bit(7)

Bsr_MF_PREAMBLE_SUPPRESSION == Bit(6)

Bsr_AUTONEG_ABLE == Bit(3)

Bsr_EXTENDED_CAPABILITIES == Bit(0)

\* Every bit of the status register is a flag.
Bsr_from_bits_truncate(v) == And(v, Word - 1)

Esr_1000BASEXFD == Bit(15)

Esr_1000BASEXHD == Bit(14)

Esr_1000BASETFD == Bit(13)

Esr_1000BASETHD == Bit(12)

\* Bits 15..12 of the extended status register are flags.
Esr_from_bits_truncate(v) ==
    And(v, Esr_1000BASEXFD + Esr_1000BASEXHD + Esr_1000BASETFD
               + Esr_1000BASETHD)

AutoNegCap_ASSYMETRIC_PAUSE == Bit(11)

AutoNegCap_PAUSE == Bit(10)

AutoNegCap_100BASET4 == Bit(9)

AutoNegCap_100BASETXFD == Bit(8)

AutoNegCap_100BASETX == Bit(7)

AutoNegCap_10BASETFD == Bit(6)

AutoNegCap_10BASET == Bit(5)

AutoNegCap_SEL_802_3 == Bit(0)

AutoNegCap_SEL_802_9_ISLAN_16T == Bit(1)

AutoNegCap_SEL_802_5 == Bit(1) + Bit(0)

AutoNegCap_SEL_1394 == Bit(2)

AutoNegCap_SEL_MASK == Bit(5) - 1

\* Every bit of the base page is a flag.
AutoNegCap_from_bits_truncate(v) == And(v, Word - 1)

AutoNegCap_TECH ==
    AutoNegCap_10BASET + AutoNegCap_10BASETFD + AutoNegCap_100BASETX
        + AutoNegCap_100BASETXFD + AutoNegCap_100BASET4

\* Bcr::is_resetting
Bcr_is_resetting(bcr) == contains(bcr, Bcr_RESET)

\* Bcr::reset(true)
Bcr_reset(bcr) == insert(bcr, Bcr_RESET)

\* Bcr::set_autonegotiation(true).restart_autonegotiation()
Bcr_set_autonegotiation_restart(bcr) ==
    insert(insert(bcr, Bcr_AUTONEG_ENABLE), Bcr_RESTART_AUTONEG)

(***************************************************************************)
(* The capability translator (pure conversions of lib.rs).                 *)
(***************************************************************************)
PhyStatus_from(bsr) ==
    [ base100_t4           |-> contains(bsr, Bsr_100BASET4),
      fd_100base_x         |-> contains(bsr, Bsr_100BASEXFD),
      hd_100base_x         |-> contains(bsr, Bsr_100BASEXHD),
      fd_10mbps            |-> contains(bsr, Bsr_10MPBSFD),
      hd_10mbps            |-> contains(bsr, Bsr_10MBPSHD),
      extended_status      |-> contains(bsr, Bsr_EXTENDED_STATUS),
      unidirectional       |-> contains(bsr, Bsr_UNIDRECTIONAL),
      preamble_suppression |-> contains(bsr, Bsr_MF_PREAMBLE_SUPPRESSION),
      autonegotiation      |-> contains(bsr, Bsr_AUTONEG_ABLE),
      extended_caps        |-> contains(bsr, Bsr_EXTENDED_CAPABILITIES) ]

\* The selector decoded by containment of the pattern's bits.
SelectorField_from_subset(ana0) ==
    LET ana == And(ana0, AutoNegCap_SEL_MASK) IN
    IF contains(ana, AutoNegCap_SEL_802_3) THEN "Std802_3"
    ELSE IF contains(ana, AutoNegCap_SEL_802_5) THEN "Std802_5"
    ELSE IF contains(ana, AutoNegCap_SEL_802_9_ISLAN_16T)
        THEN "Std802_9Islan16t"
    ELSE IF contains(ana, AutoNegCap_SEL_1394) THEN "Std1394"
    ELSE "None"

\* From<AutoNegCap> for Option<SelectorField>; "None" is the absent value.
SelectorField_from(ana0) ==
    LET ana == And(ana0, AutoNegCap_SEL_MASK) IN
    IF is_empty(Xor(ana, AutoNegCap_SEL_802_3)) THEN "Std802_3"
    ELSE IF is_empty(Xor(ana, AutoNegCap_SEL_802_5)) THEN "Std802_5"
    ELSE IF is_empty(Xor(ana, AutoNegCap_SEL_802_9_ISLAN_16T))
        THEN "Std802_9Islan16t"
    ELSE IF is_empty(Xor(ana, AutoNegCap_SEL_1394)) THEN "Std1394"
    ELSE "None"

\* From<SelectorField> for AutoNegCap
AutoNegCap_from_selector(sf) ==
    CASE sf = "Std802_3" -> AutoNegCap_SEL_802_3
      [] sf = "Std802_9Islan16t" -> AutoNegCap_SEL_802_9_ISLAN_16T
      [] sf = "Std802_5" -> AutoNegCap_SEL_802_5
      [] sf = "Std1394" -> AutoNegCap_SEL_1394

\* From<AutoNegCap> for Pause
Pause_from(ana) ==
    LET asym == contains(ana, AutoNegCap_ASSYMETRIC_PAUSE)
        sym  == contains(ana, AutoNegCap_PAUSE)
    IN  CASE ~asym /\ ~sym -> "NoPause"
          [] asym /\ ~sym  -> "AsymmetricPartner"
          [] ~asym /\ sym  -> "Symmetric"
          [] asym /\ sym   -> "SymmetricAndAsymmetricLocal"

\* From<Pause> for AutoNegCap with the two one-bit modes exchanged.
AutoNegCap_from_pause_exchanged(pause) ==
    CASE pause = "NoPause" -> 0
      [] pause = "AsymmetricPartner" -> AutoNegCap_PAUSE
      [] pause = "Symmetric" -> AutoNegCap_ASSYMETRIC_PAUSE
      [] pause = "SymmetricAndAsymmetricLocal" ->
            Or(AutoNegCap_ASSYMETRIC_PAUSE, AutoNegCap_PAUSE)

\* From<Pause> for AutoNegCap
AutoNegCap_from_pause(pause) ==
    CASE pause = "NoPause" -> 0
      [] pause = "AsymmetricPartner" -> AutoNegCap_ASSYMETRIC_PAUSE
      [] pause = "Symmetric" -> AutoNegCap_PAUSE
      [] pause = "SymmetricAndAsymmetricLocal" ->
            Or(AutoNegCap_ASSYMETRIC_PAUSE, AutoNegCap_PAUSE)

\* From<Bcr> for LinkSpeed
LinkSpeed_from(bcr) ==
    LET msb == contains(bcr, Bcr_SPEED_SEL_MSB)
        lsb == contains(bcr, Bcr_SPEED_SEL_LSB)
    IN  CASE msb /\ lsb   -> "Illegal"
          [] msb /\ ~lsb  -> "Mpbs1000"
          [] ~msb /\ lsb  -> "Mbps100"
          [] ~msb /\ ~lsb -> "Mpbs10"

\* From<LinkSpeed> for Bcr that takes Illegal for the empty set of flags.
Bcr_from_silent(link_speed) ==
    CASE link_speed = "Mpbs1000" -> <<Bcr_SPEED_SEL_MSB>>
      [] link_speed = "Mbps100" -> <<Bcr_SPEED_SEL_LSB>>
      [] link_speed = "Mpbs10" -> <<0>>
      [] link_speed = "Illegal" -> <<0>>

\* From<LinkSpeed> for Bcr: the flags returned, or no value where it panics.
Bcr_from(link_speed) ==
    CASE link_speed = "Mpbs1000" -> <<Bcr_SPEED_SEL_MSB>>
      [] link_speed = "Mbps100" -> <<Bcr_SPEED_SEL_LSB>>
      [] link_speed = "Mpbs10" -> <<0>>
      [] link_speed = "Illegal" -> <<>>

\* PhyIdent::new
PhyIdent_new(phy_ident_1, phy_ident_2) == <<phy_ident_1, phy_ident_2>>

\* The two shifted words of PhyIdent::oui joined by OR instead of AND.
PhyIdent_oui_or(id) ==
    LET hi == id[1] * Bit(6)
        lo == id[2] \div Bit(10)
    IN  hi + lo - AndN(hi, lo, 32)

\* PhyIdent::oui: (self.0 as u32) << 6 & (self.1 as u32) >> 10, the shifts
\* binding tighter than the AND; the shifted first word stays below 2^22, so
\* the 32-bit shift loses nothing.
PhyIdent_oui(id) == AndN(id[1] * Bit(6), id[2] \div Bit(10), 32)

\* The model number taken from the low bits of the second word.
PhyIdent_model_number_unshifted(id) == And(id[2] % 256, 63)

\* PhyIdent::model_number: (self.1 >> 4) as u8 & 0x3F
PhyIdent_model_number(id) == And((id[2] \div 16) % 256, 63)

\* PhyIdent::revision: (self.1) as u8 & 0x0F
PhyIdent_revision(id) == And(id[2] % 256, 15)

\* The ExtendedPhyStatus that Phy::extended_status builds from the flags.
ExtendedPhyStatus_from(esr) ==
    [ fd_1000base_x |-> contains(esr, Esr_1000BASEXFD),
      hd_1000base_x |-> contains(esr, Esr_1000BASEXHD),
      fd_1000base_t |-> contains(esr, Esr_1000BASETFD),
      hd_1000base_t |-> contains(esr, Esr_1000BASETHD) ]

\* From<AutoNegCap> for AutoNegotiationAdvertisement
AutoNegotiationAdvertisement_from(ana) ==
    [ selector_field |-> SelectorField_from(ana),
      hd_10base_t    |-> contains(ana, AutoNegCap_10BASET),
      fd_10base_t    |-> contains(ana, AutoNegCap_10BASETFD),
      hd_100base_tx  |-> contains(ana, AutoNegCap_100BASETX),
      fd_100base_tx  |-> contains(ana, AutoNegCap_100BASETXFD),
      base100_t4     |-> contains(ana, AutoNegCap_100BASET4),
      pause          |-> Pause_from(ana) ]

\* Default for AutoNegotiationAdvertisement
AutoNegotiationAdvertisement_default ==
    [ selector_field |-> "Std802_3",
      hd_10base_t    |-> FALSE,
      fd_10base_t    |-> FALSE,
      hd_100base_tx  |-> FALSE,
      fd_100base_tx  |-> FALSE,
      base100_t4     |-> FALSE,
      pause          |-> "NoPause" ]

\* best_autoneg_ad that leaves 100BASE-T4 out.
PhyStatus_best_autoneg_ad_without_t4(status) ==
    [ AutoNegotiationAdvertisement_default EXCEPT
        !.fd_100base_tx = IF status.fd_100base_x THEN TRUE ELSE @,
        !.hd_100base_tx = IF status.hd_100base_x THEN TRUE ELSE @,
        !.fd_10base_t   = IF status.fd_10mbps THEN TRUE ELSE @,
        !.hd_10base_t   = IF status.hd_10mbps THEN TRUE ELSE @ ]

\* PhyStatus::best_autoneg_ad
PhyStatus_best_autoneg_ad(status) ==
    [ AutoNegotiationAdvertisement_default EXCEPT
        !.base100_t4    = IF status.base100_t4 THEN TRUE ELSE @,
        !.fd_100base_tx = IF status.fd_100base_x THEN TRUE ELSE @,
        !.hd_100base_tx = IF status.hd_100base_x THEN TRUE ELSE @,
        !.fd_10base_t   = IF status.fd_10mbps THEN TRUE ELSE @,
        !.hd_10base_t   = IF status.hd_10mbps THEN TRUE ELSE @ ]

(***************************************************************************)
(* The vendor registers of the DP83xxx (dp83xxx.rs).                       *)
(***************************************************************************)
PAGE_REG == 19

INTERRUPT_REG == <<0, 27>>

INTERRUPT_REG_EN_LINK_CHANGE == Bit(5)

PHYSTS_ADDRESS == 25

PTPCTL_ADDRESS == <<4, 20>>

PTP_TIME == <<4, 21>>

PTP_RATEL == <<4, 24>>

PTP_RATEH == <<4, 25>>

PTPCTL_PTP_RESET == Bit(0)

PTPCTL_PTP_DISABLE == Bit(1)

PTPCTL_PTP_ENABLE == Bit(2)

PTPCTL_PTP_LOAD_CLK == Bit(4)

PTPCTL_PTP_RD_CLK == Bit(5)

PTPCTL_all ==
    PTPCTL_PTP_RESET + PTPCTL_PTP_DISABLE + PTPCTL_PTP_ENABLE
        + PTPCTL_PTP_LOAD_CLK + PTPCTL_PTP_RD_CLK

PTPCTL_from_bits_truncate(v) == And(v, PTPCTL_all)

(***************************************************************************)
(* Bounds and input sets.                                                  *)
(***************************************************************************)
\* The log of a call keeps its last MaxLog transport operations.
MaxLog == 6

\* The count of polls of blocking_reset saturates at MaxPolls.
MaxPolls == 2

\* The address the PHY answers to, and both accessors are built with.
DevAddr == 1

Accessors == {"A", "B"}

\* Status words: each set of supported technologies with and without the
\* extended-capabilities bit.
StatusTech ==
    { 0,
      Bsr_10MBPSHD + Bsr_100BASEXFD,
      Bsr_10MBPSHD + Bsr_10MPBSFD + Bsr_100BASEXHD + Bsr_100BASEXFD,
      Bsr_10MBPSHD + Bsr_10MPBSFD + Bsr_100BASEXHD + Bsr_100BASEXFD
          + Bsr_100BASET4 }

StatusValues ==
    { t + e + Bsr_AUTONEG_ABLE :
        t \in StatusTech, e \in {0, Bsr_EXTENDED_CAPABILITIES} }

Ad(sel, hd10, fd10, hd100, fd100, t4, pause) ==
    [ selector_field |-> sel,
      hd_10base_t    |-> hd10,
      fd_10base_t    |-> fd10,
      hd_100base_tx  |-> hd100,
      fd_100base_tx  |-> fd100,
      base100_t4     |-> t4,
      pause          |-> pause ]

\* Requested advertisements.
AdValues ==
    { AutoNegotiationAdvertisement_default,
      Ad("Std802_3", TRUE, TRUE, FALSE, TRUE, FALSE, "NoPause"),
      Ad("Std802_3", TRUE, TRUE, TRUE, TRUE, TRUE, "Symmetric"),
      Ad("None", FALSE, FALSE, FALSE, FALSE, TRUE, "AsymmetricPartner"),
      Ad("Std1394", FALSE, FALSE, TRUE, FALSE, FALSE,
         "SymmetricAndAsymmetricLocal"),
      Ad("Std802_5", FALSE, TRUE, TRUE, FALSE, FALSE, "NoPause"),
      Ad("Std802_9Islan16t", TRUE, FALSE, FALSE, TRUE, TRUE, "Symmetric") }

\* Initial contents of the control register (reset clear).
BcrValues == { 0, Bcr_DUPLEX_MODE + Bcr_SPEED_SEL_LSB + Bit(0) }

\* Initial contents of the identifier and capability registers 2, 3, 4, 5.
IdentCapValues ==
    { <<8192, 23777, 0, 17889>>,
      <<0, 854, 481, Word - 1>> }

Pages == {0, 4}

\* The paged registers of the model: offsets 0x14, 0x15, 0x18, 0x19, 0x1B.
PagedRegs == {20, 21, 24, 25, 27}

\* Initial contents of the PTP control register.
PtpCtlValues == { 0, PTPCTL_PTP_ENABLE + Bit(3) + Bit(10) }

\* Values a caller passes to write_ext and set_clock.
ExtValues == { 7, 4660 }

\* Initial contents of the PTP time register.
TimeValues == { 0, 43981 }

\* Initial contents of the link status register PHYSTS (page 0, 0x19).
PhystsValues == { 0, 5 }

(***************************************************************************)
(* State.                                                                  *)
(*   regs      the PHY's unpaged registers 0..5 and the page register      *)
(*   ext       the PHY's paged registers, by <<page, offset>>              *)
(*   acc       each accessor: its position, locals, result and log         *)
(*   exclusive whether the bus is granted for a whole two-step access      *)
(***************************************************************************)
VARIABLES regs, ext, acc, exclusive

vars == <<regs, ext, acc, exclusive>>

\* The accessor has selected no page yet: not a value of a 16-bit register.
NoPage == Word

\* DP83XXX::new: an accessor at rest.  selected is the page of the accessor's
\* latest page-select write, prior the one at the start of the running call.
new(phy_addr) ==
    [ phy_addr |-> phy_addr,
      pc       |-> "idle",
      op       |-> "new",
      arg      |-> <<>>,
      ret      |-> "idle",
      f        |-> "none",
      bcr      |-> 0,
      status   |-> 0,
      ana      |-> 0,
      msb      |-> 0,
      ptpctl   |-> 0,
      prog     |-> <<>>,
      polls    |-> 0,
      selected |-> NoPage,
      prior    |-> NoPage,
      result   |-> <<>>,
      log      |-> <<>> ]

\* The register file of a PHY.
Device(bcr, bsr, ic, page) ==
    (Bcr_ADDRESS :> bcr) @@ (Bsr_ADDRESS :> bsr)
        @@ (PHY_IDENT_1 :> ic[1]) @@ (PHY_IDENT_2 :> ic[2])
        @@ (LOCAL_CAP_ADDRESS :> ic[3]) @@ (PARTNER_CAP_ADDRESS :> ic[4])
        @@ (Esr_ADDRESS :> 0) @@ (PAGE_REG :> page)

\* The PHY in any register state, one accessor using the clause 22 registers.
Init ==
    /\ \E bcr \in BcrValues, bsr \in StatusValues, ic \in IdentCapValues :
         regs = Device(bcr, bsr, ic, 0)
    /\ ext = [c \in Pages \X PagedRegs |-> 0]
    /\ acc = [a \in Accessors |-> new(DevAddr)]
    /\ exclusive = TRUE

(***************************************************************************)
(* The Miim transport and the device behind it.                            *)
(***************************************************************************)
\* What the device answers to a read of register reg.
MiimRead(reg) ==
    IF reg \in PagedRegs THEN ext[<<regs[PAGE_REG], reg>>] ELSE regs[reg]

\* The unpaged registers after a write of register reg.
RegsAfterWrite(reg, value) ==
    IF reg \in DOMAIN regs THEN [regs EXCEPT ![reg] = value] ELSE regs

\* The paged registers after a write of register reg.
ExtAfterWrite(reg, value) ==
    IF reg \in PagedRegs
    THEN [ext EXCEPT ![<<regs[PAGE_REG], reg>>] = value]
    ELSE ext

\* One logged transport operation; page is the page the device had selected.
Op(k, phy, reg, value) ==
    [k |-> k, phy |-> phy, reg |-> reg, val |-> value, page |-> regs[PAGE_REG]]

Logged(log, e) ==
    IF Len(log) < MaxLog THEN Append(log, e) ELSE Append(Tail(log), e)

\* Phy::read of accessor a, storing the value as field(s) given by upd.
LogRead(a, reg) ==
    Logged(acc[a].log, Op("r", acc[a].phy_addr, reg, MiimRead(reg)))

LogWrite(a, reg, value) ==
    Logged(acc[a].log, Op("w", acc[a].phy_addr, reg, value))

\* The start of a call: fresh locals, an empty log.
Enter(a, op, arg, pc) ==
    [new(acc[a].phy_addr) EXCEPT !.op = op, !.arg = arg, !.pc = pc,
                                 !.selected = acc[a].selected,
                                 !.prior = acc[a].selected]

(***************************************************************************)
(* The PHY controller: the default methods of trait Phy (lib.rs).          *)
(***************************************************************************)
\* reset that goes on to poll the reset bit.
reset_waiting(a) ==
    /\ acc[a].pc = "idle"
    /\ acc' = [acc EXCEPT ![a] =
                 [Enter(a, "reset", <<>>, "modify_bcr_read")
                    EXCEPT !.f = "reset", !.ret = "is_resetting"]]
    /\ UNCHANGED <<regs, ext, exclusive>>

\* Phy::reset: modify_bcr with the closure that sets the reset bit.
reset(a) ==
    /\ acc[a].pc = "idle"
    /\ acc' = [acc EXCEPT ![a] =
                 [Enter(a, "reset", <<>>, "modify_bcr_read")
                    EXCEPT !.f = "reset", !.ret = "idle"]]
    /\ UNCHANGED <<regs, ext, exclusive>>

\* Phy::blocking_reset: reset(), then the loop on is_resetting().
blocking_reset(a) ==
    /\ acc[a].pc = "idle"
    /\ acc' = [acc EXCEPT ![a] =
                 [Enter(a, "blocking_reset", <<>>, "modify_bcr_read")
                    EXCEPT !.f = "reset", !.ret = "is_resetting"]]
    /\ UNCHANGED <<regs, ext, exclusive>>

\* The closure modify_bcr applies to the control bits it read.
ApplyClosure(f, bcr) ==
    CASE f = "reset" -> Bcr_reset(bcr)
      [] f = "autoneg" -> Bcr_set_autonegotiation_restart(bcr)

\* Phy::modify_bcr, first half: self.bcr() reads register 0.
modify_bcr_read(a) ==
    /\ acc[a].pc = "modify_bcr_read"
    /\ acc' = [acc EXCEPT ![a] =
                 [@ EXCEPT !.bcr = Bcr_from_bits_truncate(MiimRead(Bcr_ADDRESS)),
                           !.log = LogRead(a, Bcr_ADDRESS),
                           !.pc = "modify_bcr_write"]]
    /\ UNCHANGED <<regs, ext, exclusive>>

\* Phy::modify_bcr, second half: f(bcr), then the write of register 0.
modify_bcr_write(a) ==
    /\ acc[a].pc = "modify_bcr_write"
    /\ LET value == ApplyClosure(acc[a].f, acc[a].bcr) IN
         /\ regs' = RegsAfterWrite(Bcr_ADDRESS, value)
         /\ acc' = [acc EXCEPT ![a] =
                      [@ EXCEPT !.log = LogWrite(a, Bcr_ADDRESS, value),
                                !.pc = acc[a].ret]]
    /\ UNCHANGED <<ext, exclusive>>

\* The loop with its condition inverted: it ends when the reset bit is set.
is_resetting_inverted(a) ==
    /\ acc[a].pc = "is_resetting"
    /\ LET bcr == Bcr_from_bits_truncate(MiimRead(Bcr_ADDRESS)) IN
         acc' = [acc EXCEPT ![a] =
                   [@ EXCEPT !.bcr = bcr,
                             !.log = LogRead(a, Bcr_ADDRESS),
                             !.polls = IF @ < MaxPolls THEN @ + 1 ELSE @,
                             !.pc = IF ~Bcr_is_resetting(bcr)
                                    THEN "is_resetting" ELSE "idle"]]
    /\ UNCHANGED <<regs, ext, exclusive>>

\* The loop with a timeout: it also ends after MaxPolls polls.
is_resetting_bounded(a) ==
    /\ acc[a].pc = "is_resetting"
    /\ LET bcr == Bcr_from_bits_truncate(MiimRead(Bcr_ADDRESS)) IN
         acc' = [acc EXCEPT ![a] =
                   [@ EXCEPT !.bcr = bcr,
                             !.log = LogRead(a, Bcr_ADDRESS),
                             !.polls = IF @ < MaxPolls THEN @ + 1 ELSE @,
                             !.pc = IF Bcr_is_resetting(bcr)
                                       /\ acc[a].polls < MaxPolls
                                    THEN "is_resetting" ELSE "idle"]]
    /\ UNCHANGED <<regs, ext, exclusive>>

\* One turn of `while self.is_resetting() {}`: a read of register 0; the loop
\* ends when the reset bit of that read is clear.
is_resetting(a) ==
    /\ acc[a].pc = "is_resetting"
    /\ LET bcr == Bcr_from_bits_truncate(MiimRead(Bcr_ADDRESS)) IN
         acc' = [acc EXCEPT ![a] =
                   [@ EXCEPT !.bcr = bcr,
                             !.log = LogRead(a, Bcr_ADDRESS),
                             !.polls = IF @ < MaxPolls THEN @ + 1 ELSE @,
                             !.pc = IF Bcr_is_resetting(bcr)
                                    THEN "is_resetting" ELSE "idle"]]
    /\ UNCHANGED <<regs, ext, exclusive>>

\* Phy::phy_ident: status() first; the identifier is read only with
\* extended_caps.
phy_ident(a) ==
    /\ acc[a].pc = "idle"
    /\ acc' = [acc EXCEPT ![a] = Enter(a, "phy_ident", <<>>, "phy_ident_status")]
    /\ UNCHANGED <<regs, ext, exclusive>>

\* phy_ident reading the identifier whatever the status says.
phy_ident_status_ungated(a) ==
    /\ acc[a].pc = "phy_ident_status"
    /\ LET bsr == Bsr_from_bits_truncate(MiimRead(Bsr_ADDRESS)) IN
         acc' = [acc EXCEPT ![a] =
                   [@ EXCEPT !.status = bsr,
                             !.log = LogRead(a, Bsr_ADDRESS),
                             !.result = <<>>,
                             !.pc = "phy_ident_msb"]]
    /\ UNCHANGED <<regs, ext, exclusive>>

phy_ident_status(a) ==
    /\ acc[a].pc = "phy_ident_status"
    /\ LET bsr == Bsr_from_bits_truncate(MiimRead(Bsr_ADDRESS)) IN
         acc' = [acc EXCEPT ![a] =
                   [@ EXCEPT !.status = bsr,
                             !.log = LogRead(a, Bsr_ADDRESS),
                             !.result = <<>>,
                             !.pc = IF PhyStatus_from(bsr).extended_caps
                                    THEN "phy_ident_msb" ELSE "idle"]]
    /\ UNCHANGED <<regs, ext, exclusive>>

phy_ident_msb(a) ==
    /\ acc[a].pc = "phy_ident_msb"
    /\ acc' = [acc EXCEPT ![a] =
                 [@ EXCEPT !.msb = MiimRead(PHY_IDENT_1),
                           !.log = LogRead(a, PHY_IDENT_1),
                           !.pc = "phy_ident_lsb"]]
    /\ UNCHANGED <<regs, ext, exclusive>>

phy_ident_lsb(a) ==
    /\ acc[a].pc = "phy_ident_lsb"
    /\ acc' = [acc EXCEPT ![a] =
                 [@ EXCEPT !.result =
                               << PhyIdent_new(acc[a].msb,
                                               MiimRead(PHY_IDENT_2)) >>,
                           !.log = LogRead(a, PHY_IDENT_2),
                           !.pc = "idle"]]
    /\ UNCHANGED <<regs, ext, exclusive>>

\* Phy::get_autonegotiation_caps and Phy::get_autonegotiation_partner_caps:
\* the same body on register 4 and on register 5.
get_autonegotiation_caps(a) ==
    /\ acc[a].pc = "idle"
    /\ acc' = [acc EXCEPT ![a] =
                 Enter(a, "get_autonegotiation_caps", LOCAL_CAP_ADDRESS,
                       "get_caps_status")]
    /\ UNCHANGED <<regs, ext, exclusive>>

get_autonegotiation_partner_caps(a) ==
    /\ acc[a].pc = "idle"
    /\ acc' = [acc EXCEPT ![a] =
                 Enter(a, "get_autonegotiation_partner_caps",
                       PARTNER_CAP_ADDRESS, "get_caps_status")]
    /\ UNCHANGED <<regs, ext, exclusive>>

get_caps_status(a) ==
    /\ acc[a].pc = "get_caps_status"
    /\ LET bsr == Bsr_from_bits_truncate(MiimRead(Bsr_ADDRESS)) IN
         acc' = [acc EXCEPT ![a] =
                   [@ EXCEPT !.status = bsr,
                             !.log = LogRead(a, Bsr_ADDRESS),
                             !.result = <<>>,
                             !.pc = IF PhyStatus_from(bsr).extended_caps
                                    THEN "get_caps_read" ELSE "idle"]]
    /\ UNCHANGED <<regs, ext, exclusive>>

get_caps_read(a) ==
    /\ acc[a].pc = "get_caps_read"
    /\ LET ana == AutoNegCap_from_bits_truncate(MiimRead(acc[a].arg)) IN
         acc' = [acc EXCEPT ![a] =
                   [@ EXCEPT !.ana = ana,
                             !.log = LogRead(a, acc[a].arg),
                             !.result = <<AutoNegotiationAdvertisement_from(ana)>>,
                             !.pc = "idle"]]
    /\ UNCHANGED <<regs, ext, exclusive>>

\* The AutoNegCap built from the requested advertisement alone, the status
\* being ignored.
advertised_unfiltered(ad, status) ==
    LET a1 == IF ad.hd_10base_t
              THEN insert(0, AutoNegCap_10BASET) ELSE 0
        a2 == IF ad.fd_10base_t
              THEN insert(a1, AutoNegCap_10BASETFD) ELSE a1
        a3 == IF ad.hd_100base_tx
              THEN insert(a2, AutoNegCap_100BASETX) ELSE a2
        a4 == IF ad.fd_100base_tx
              THEN insert(a3, AutoNegCap_100BASETXFD) ELSE a3
        a5 == IF ad.base100_t4
              THEN insert(a4, AutoNegCap_100BASET4) ELSE a4
        a6 == IF ad.selector_field # "None"
              THEN insert(a5, AutoNegCap_from_selector(ad.selector_field))
              ELSE a5
    IN  insert(a6, AutoNegCap_from_pause(ad.pause))

\* The AutoNegCap that set_autonegotiation_advertisement builds from the
\* requested advertisement and the status (lib.rs 479-505).
advertised(ad, status) ==
    LET a1 == IF ad.hd_10base_t /\ status.hd_10mbps
              THEN insert(0, AutoNegCap_10BASET) ELSE 0
        a2 == IF ad.fd_10base_t /\ status.fd_10mbps
              THEN insert(a1, AutoNegCap_10BASETFD) ELSE a1
        a3 == IF ad.hd_100base_tx /\ status.hd_100base_x
              THEN insert(a2, AutoNegCap_100BASETX) ELSE a2
        a4 == IF ad.fd_100base_tx /\ status.fd_100base_x
              THEN insert(a3, AutoNegCap_100BASETXFD) ELSE a3
        a5 == IF ad.base100_t4
              THEN insert(a4, AutoNegCap_100BASET4) ELSE a4
        a6 == IF ad.selector_field # "None"
              THEN insert(a5, AutoNegCap_from_selector(ad.selector_field))
              ELSE a5
    IN  insert(a6, AutoNegCap_from_pause(ad.pause))

\* Phy::set_autonegotiation_advertisement(ad).
set_autonegotiation_advertisement(a) ==
    /\ acc[a].pc = "idle"
    /\ \E ad \in AdValues :
         acc' = [acc EXCEPT ![a] =
                   Enter(a, "set_autonegotiation_advertisement", ad,
                         "set_ad_status")]
    /\ UNCHANGED <<regs, ext, exclusive>>

\* The status step without the early return.
set_ad_status_ungated(a) ==
    /\ acc[a].pc = "set_ad_status"
    /\ LET bsr == Bsr_from_bits_truncate(MiimRead(Bsr_ADDRESS))
           status == PhyStatus_from(bsr)
       IN  acc' = [acc EXCEPT ![a] =
                     [@ EXCEPT !.status = bsr,
                               !.log = LogRead(a, Bsr_ADDRESS),
                               !.ana = advertised(acc[a].arg, status),
                               !.pc = "set_ad_write"]]
    /\ UNCHANGED <<regs, ext, exclusive>>

\* The status step followed by the restart of autonegotiation, the write of
\* the capability register coming after it.
set_ad_status_restart_first(a) ==
    /\ acc[a].pc = "set_ad_status"
    /\ LET bsr == Bsr_from_bits_truncate(MiimRead(Bsr_ADDRESS))
           status == PhyStatus_from(bsr)
       IN  acc' = [acc EXCEPT ![a] =
                     [@ EXCEPT !.status = bsr,
                               !.log = LogRead(a, Bsr_ADDRESS),
                               !.ana = IF status.extended_caps
                                       THEN advertised(acc[a].arg, status)
                                       ELSE 0,
                               !.f = "autoneg",
                               !.ret = "set_ad_write",
                               !.pc = IF status.extended_caps
                                      THEN "modify_bcr_read" ELSE "idle"]]
    /\ UNCHANGED <<regs, ext, exclusive>>

\* status(), the early return without extended_caps, and the computation of
\* the bits to write.
set_ad_status(a) ==
    /\ acc[a].pc = "set_ad_status"
    /\ LET bsr == Bsr_from_bits_truncate(MiimRead(Bsr_ADDRESS))
           status == PhyStatus_from(bsr)
       IN  acc' = [acc EXCEPT ![a] =
                     [@ EXCEPT !.status = bsr,
                               !.log = LogRead(a, Bsr_ADDRESS),
                               !.ana = IF status.extended_caps
                                       THEN advertised(acc[a].arg, status)
                                       ELSE 0,
                               !.pc = IF status.extended_caps
                                      THEN "set_ad_write" ELSE "idle"]]
    /\ UNCHANGED <<regs, ext, exclusive>>

\* self.write(LOCAL_CAP_ADDRESS, ana.bits()), then modify_bcr with the
\* closure that enables and restarts autonegotiation.
set_ad_write(a) ==
    /\ acc[a].pc = "set_ad_write"
    /\ regs' = RegsAfterWrite(LOCAL_CAP_ADDRESS, acc[a].ana)
    /\ acc' = [acc EXCEPT ![a] =
                 [@ EXCEPT !.log = LogWrite(a, LOCAL_CAP_ADDRESS, acc[a].ana),
                           !.f = "autoneg",
                           !.ret = "idle",
                           !.pc = "modify_bcr_read"]]
    /\ UNCHANGED <<ext, exclusive>>

\* The PHY finishes a reset: the reset bit of register 0 clears by itself.
DeviceResetDone ==
    /\ contains(regs[Bcr_ADDRESS], Bcr_RESET)
    /\ regs' = [regs EXCEPT ![Bcr_ADDRESS] = @ - Bcr_RESET]
    /\ UNCHANGED <<ext, acc, exclusive>>

\* The caller of the clause 22 methods.
PhyUser == "A"

Next ==
    \/ reset(PhyUser)
    \/ blocking_reset(PhyUser)
    \/ modify_bcr_read(PhyUser)
    \/ modify_bcr_write(PhyUser)
    \/ is_resetting(PhyUser)
    \/ phy_ident(PhyUser)
    \/ phy_ident_status(PhyUser)
    \/ phy_ident_msb(PhyUser)
    \/ phy_ident_lsb(PhyUser)
    \/ get_autonegotiation_caps(PhyUser)
    \/ get_autonegotiation_partner_caps(PhyUser)
    \/ get_caps_status(PhyUser)
    \/ get_caps_read(PhyUser)
    \/ set_autonegotiation_advertisement(PhyUser)
    \/ set_ad_status(PhyUser)
    \/ set_ad_write(PhyUser)
    \/ DeviceResetDone

Spec == Init /\ [][Next]_vars

(***************************************************************************)
(* The paged accessor and the clock controller (dp83xxx.rs).  A method is  *)
(* the list of the transport operations it issues, in order; a read names  *)
(* the local that takes the value, a write the source of its value.        *)
(***************************************************************************)
\* self.read(reg); dest is the local that takes the value, and flag the
\* PTPCTL flag that `ptpctl.set(flag, true)` sets in it.
Read(reg, dest, flag) ==
    [k |-> "r", reg |-> reg, dest |-> dest, flag |-> flag, val |-> 0]

\* self.write(reg, value) of a value known at the call.
Write(reg, value) ==
    [k |-> "w", reg |-> reg, dest |-> "const", flag |-> 0, val |-> value]

\* self.write(reg, ptpctl.bits()).
WritePtpctl(reg) ==
    [k |-> "w", reg |-> reg, dest |-> "ptpctl", flag |-> 0, val |-> 0]

\* write_ext selecting the page after the target write.
write_ext_select_after(address_ext, value) ==
    << Write(address_ext[2], value), Write(PAGE_REG, address_ext[1]) >>

\* DP83XXX::write_ext(address_ext, value)
write_ext(address_ext, value) ==
    << Write(PAGE_REG, address_ext[1]), Write(address_ext[2], value) >>

\* DP83XXX::write_ext(address_ext, ptpctl.bits())
write_ext_ptpctl(address_ext) ==
    << Write(PAGE_REG, address_ext[1]), WritePtpctl(address_ext[2]) >>

\* read_ext trusting the page selected before.
read_ext_no_select(address_ext, dest, flag) ==
    << Read(address_ext[2], dest, flag) >>

\* DP83XXX::read_ext(address_ext)
read_ext(address_ext, dest, flag) ==
    << Write(PAGE_REG, address_ext[1]), Read(address_ext[2], dest, flag) >>

\* DP83XXX::interrupt_enable
interrupt_enable ==
    write_ext(INTERRUPT_REG, INTERRUPT_REG_EN_LINK_CHANGE)

\* DP83XXX::get_interrupt_reg_val
get_interrupt_reg_val == read_ext(INTERRUPT_REG, "result", 0)

\* link_speed selecting page 0 before its read.
link_speed_paged == read_ext(<<0, PHYSTS_ADDRESS>>, "link_speed", 0)

\* DP83XXX::link_speed
link_speed == << Read(PHYSTS_ADDRESS, "link_speed", 0) >>

\* started reading the register offset on whatever page is selected.
started_unpaged == << Read(PTPCTL_ADDRESS[2], "started", 0) >>

\* PTP::started
started == read_ext(PTPCTL_ADDRESS, "started", 0)

\* PTP::reset_clock
reset_clock ==
    read_ext(PTPCTL_ADDRESS, "ptpctl", PTPCTL_PTP_RESET)
        \o write_ext_ptpctl(PTPCTL_ADDRESS)

\* PTP::start_ptp
start_ptp ==
    read_ext(PTPCTL_ADDRESS, "ptpctl", PTPCTL_PTP_ENABLE)
        \o write_ext_ptpctl(PTPCTL_ADDRESS)

\* PTP::stop_ptp
stop_ptp ==
    read_ext(PTPCTL_ADDRESS, "ptpctl", PTPCTL_PTP_DISABLE)
        \o write_ext_ptpctl(PTPCTL_ADDRESS)

\* set_clock writing the control register before the time register.
set_clock_load_first(clock) ==
    read_ext(PTPCTL_ADDRESS, "ptpctl", PTPCTL_PTP_LOAD_CLK)
        \o write_ext_ptpctl(PTPCTL_ADDRESS)
        \o write_ext(PTP_TIME, clock)

\* PTP::set_clock(clock)
set_clock(clock) ==
    read_ext(PTPCTL_ADDRESS, "ptpctl", PTPCTL_PTP_LOAD_CLK)
        \o write_ext(PTP_TIME, clock)
        \o write_ext_ptpctl(PTPCTL_ADDRESS)

\* read_clock reading the time register before the read request.
read_clock_early ==
    read_ext(PTP_TIME, "result", 0)
        \o read_ext(PTPCTL_ADDRESS, "ptpctl", PTPCTL_PTP_RD_CLK)
        \o write_ext_ptpctl(PTPCTL_ADDRESS)

\* PTP::read_clock
read_clock ==
    read_ext(PTPCTL_ADDRESS, "ptpctl", PTPCTL_PTP_RD_CLK)
        \o write_ext_ptpctl(PTPCTL_ADDRESS)
        \o read_ext(PTP_TIME, "result", 0)

\* set_rate_control with the two halves sent to each other's register.
set_rate_control_swapped(rate) ==
    LET high_bits == (rate \div Word) % Word
        low_bits  == rate % Word
    IN  write_ext(PTP_RATEL, high_bits) \o write_ext(PTP_RATEH, low_bits)

\* PTP::set_rate_control(rate)
set_rate_control(rate) ==
    LET high_bits == (rate \div Word) % Word
        low_bits  == rate % Word
    IN  write_ext(PTP_RATEH, high_bits) \o write_ext(PTP_RATEL, low_bits)

\* From<PHYSTS> for Option<PhySpeed>
PhySpeed_from(ctrl) ==
    LET full_duplex == contains(ctrl, Bit(2))
        mbit_10     == contains(ctrl, Bit(1))
        link        == contains(ctrl, Bit(0))
    IN  IF ~link THEN <<>>
        ELSE IF full_duplex /\ mbit_10 THEN <<"FullDuplexBase10T">>
        ELSE IF full_duplex THEN <<"FullDuplexBase100Tx">>
        ELSE IF mbit_10 THEN <<"HalfDuplexBase10T">>
        ELSE <<"HalfDuplexBase100Tx">>

\* Extended addresses a caller passes to read_ext and write_ext.
ExtAddrs == { PTP_TIME }

\* Rates a caller passes to set_rate_control: 0x12345678, 0x0000FFFF and
\* 0x7FFF0001 (the model's integers end at 2^31 - 1).
RateValues == { 305419896, 65535, 2147418113 }

\* The accessor with the PTP methods (a DP83640); the other is a DP83848.
PtpUser == "A"

\* An accessor is between the two operations of an extended access: its last
\* operation selected a page and the target operation is still to come.
InPair(b) ==
    /\ acc[b].prog # <<>>
    /\ acc[b].log # <<>>
    /\ acc[b].log[Len(acc[b].log)].reg = PAGE_REG

\* With exclusive use of the transport, no accessor issues an operation while
\* another is between the two operations of an extended access.
BusGranted(a) ==
    exclusive => \A b \in Accessors \ {a} : ~InPair(b)

\* The accessors after a starts a call of a method given as the list of its
\* transport operations.
Begin(a, op, arg, prog) ==
    [acc EXCEPT ![a] = [Enter(a, op, arg, "transfer") EXCEPT !.prog = prog]]

call_read_ext(a) ==
    /\ acc[a].pc = "idle"
    /\ \E address_ext \in ExtAddrs :
         acc' = Begin(a, "read_ext", <<address_ext>>,
                      read_ext(address_ext, "result", 0))
    /\ UNCHANGED <<regs, ext, exclusive>>

call_write_ext(a) ==
    /\ acc[a].pc = "idle"
    /\ \E address_ext \in ExtAddrs, value \in ExtValues :
         acc' = Begin(a, "write_ext", <<address_ext, value>>,
                      write_ext(address_ext, value))
    /\ UNCHANGED <<regs, ext, exclusive>>

call_interrupt_enable(a) ==
    /\ acc[a].pc = "idle"
    /\ acc' = Begin(a, "interrupt_enable", <<>>, interrupt_enable)
    /\ UNCHANGED <<regs, ext, exclusive>>

call_get_interrupt_reg_val(a) ==
    /\ acc[a].pc = "idle"
    /\ acc' = Begin(a, "get_interrupt_reg_val", <<>>, get_interrupt_reg_val)
    /\ UNCHANGED <<regs, ext, exclusive>>

call_link_speed(a) ==
    /\ acc[a].pc = "idle"
    /\ acc' = Begin(a, "link_speed", <<>>, link_speed)
    /\ UNCHANGED <<regs, ext, exclusive>>

call_started(a) ==
    /\ acc[a].pc = "idle"
    /\ acc' = Begin(a, "started", <<>>, started)
    /\ UNCHANGED <<regs, ext, exclusive>>

call_reset_clock(a) ==
    /\ acc[a].pc = "idle"
    /\ acc' = Begin(a, "reset_clock", <<>>, reset_clock)
    /\ UNCHANGED <<regs, ext, exclusive>>

call_start_ptp(a) ==
    /\ acc[a].pc = "idle"
    /\ acc' = Begin(a, "start_ptp", <<>>, start_ptp)
    /\ UNCHANGED <<regs, ext, exclusive>>

call_stop_ptp(a) ==
    /\ acc[a].pc = "idle"
    /\ acc' = Begin(a, "stop_ptp", <<>>, stop_ptp)
    /\ UNCHANGED <<regs, ext, exclusive>>

call_set_clock(a) ==
    /\ acc[a].pc = "idle"
    /\ \E clock \in ExtValues :
         acc' = Begin(a, "set_clock", <<clock>>, set_clock(clock))
    /\ UNCHANGED <<regs, ext, exclusive>>

call_read_clock(a) ==
    /\ acc[a].pc = "idle"
    /\ acc' = Begin(a, "read_clock", <<>>, read_clock)
    /\ UNCHANGED <<regs, ext, exclusive>>

call_set_rate_control(a) ==
    /\ acc[a].pc = "idle"
    /\ \E rate \in RateValues :
         acc' = Begin(a, "set_rate_control", <<rate>>, set_rate_control(rate))
    /\ UNCHANGED <<regs, ext, exclusive>>

\* Phy::read / Phy::write: the next transport operation of the running call.
transfer(a) ==
    /\ acc[a].pc = "transfer"
    /\ BusGranted(a)
    /\ LET i    == Head(acc[a].prog)
           rest == Tail(acc[a].prog)
           pc   == IF rest = <<>> THEN "idle" ELSE "transfer"
       IN  IF i.k = "w"
           THEN LET value == IF i.dest = "ptpctl" THEN acc[a].ptpctl ELSE i.val
                IN  /\ regs' = RegsAfterWrite(i.reg, value)
                    /\ ext' = ExtAfterWrite(i.reg, value)
                    /\ acc' = [acc EXCEPT ![a] =
                                 [@ EXCEPT !.log = LogWrite(a, i.reg, value),
                                           !.selected =
                                               IF i.reg = PAGE_REG
                                               THEN value ELSE @,
                                           !.prog = rest,
                                           !.pc = pc]]
           ELSE LET v == MiimRead(i.reg)
                IN  /\ acc' = [acc EXCEPT ![a] =
                                 [@ EXCEPT
                                    !.log = LogRead(a, i.reg),
                                    !.ptpctl =
                                        IF i.dest = "ptpctl"
                                        THEN insert(PTPCTL_from_bits_truncate(v),
                                                    i.flag)
                                        ELSE @,
                                    !.result =
                                        CASE i.dest = "result" -> <<v>>
                                          [] i.dest = "started" ->
                                               << contains(
                                                    PTPCTL_from_bits_truncate(v),
                                                    PTPCTL_PTP_ENABLE) >>
                                          [] i.dest = "link_speed" ->
                                               PhySpeed_from(And(v, Bit(3) - 1))
                                          [] OTHER -> @,
                                    !.prog = rest,
                                    !.pc = pc]]
                    /\ UNCHANGED <<regs, ext>>
    /\ UNCHANGED exclusive

\* The paged registers with the PTP control register holding ctl, the time
\* register time and the link status register physts.
Paged(ctl, time, physts) ==
    [c \in Pages \X PagedRegs |->
        CASE c = PTPCTL_ADDRESS -> ctl
          [] c = PTP_TIME -> time
          [] c = <<0, PHYSTS_ADDRESS>> -> physts
          [] OTHER -> 0]

\* The PHY with any page selected and two accessors on the same bus, with or
\* without exclusive use of the transport for the two-step accesses.
InitPaged ==
    /\ \E page \in Pages :
         regs = Device(0, Bsr_EXTENDED_CAPABILITIES, <<0, 0, 0, 0>>, page)
    /\ \E physts \in PhystsValues : ext = Paged(0, 0, physts)
    /\ acc = [a \in Accessors |-> new(DevAddr)]
    /\ exclusive \in BOOLEAN

NextPaged ==
    \E a \in Accessors :
        \/ call_read_ext(a)
        \/ call_write_ext(a)
        \/ call_interrupt_enable(a)
        \/ call_get_interrupt_reg_val(a)
        \/ call_link_speed(a)
        \/ transfer(a)

SpecPaged == InitPaged /\ [][NextPaged]_vars

\* The PHY with any page selected and any PTP control word, and the DP83640
\* accessor alone on the bus.
InitPtp ==
    /\ \E page \in Pages :
         regs = Device(0, Bsr_EXTENDED_CAPABILITIES, <<0, 0, 0, 0>>, page)
    /\ \E ctl \in PtpCtlValues, time \in TimeValues : ext = Paged(ctl, time, 0)
    /\ acc = [a \in Accessors |-> new(DevAddr)]
    /\ exclusive = TRUE

NextPtp ==
    \/ call_started(PtpUser)
    \/ call_reset_clock(PtpUser)
    \/ call_start_ptp(PtpUser)
    \/ call_stop_ptp(PtpUser)
    \/ call_set_clock(PtpUser)
    \/ call_read_clock(PtpUser)
    \/ call_set_rate_control(PtpUser)
    \/ transfer(PtpUser)

SpecPtp == InitPtp /\ [][NextPtp]_vars

(***************************************************************************)
(* Properties of the paged accessor.                                       *)
(***************************************************************************)
\* The extended address a finished or running call of a one-access method
\* was given.
CallAddress(a) ==
    CASE acc[a].op \in {"read_ext", "write_ext"} -> acc[a].arg[1]
      [] acc[a].op \in {"interrupt_enable", "get_interrupt_reg_val"} ->
            INTERRUPT_REG

ExtCalls ==
    {"read_ext", "write_ext", "interrupt_enable", "get_interrupt_reg_val"}

\* Whether the operation is the target access of a call: not a page select.
IsTarget(e) == e.reg # PAGE_REG

\* C1: in every call of read_ext or write_ext (direct, or through
\* interrupt_enable and get_interrupt_reg_val) with address (page, offset),
\* the target operation is the read or write of register offset, and the
\* operation the accessor issued immediately before it is a write of page to
\* the page-select register 0x13 at the same device address, whatever page
\* the accessor selected before.
C1_PageSelectImmediatelyBeforeTarget ==
    \A a \in Accessors :
        acc[a].op \in ExtCalls =>
            LET log == acc[a].log
                address_ext == CallAddress(a)
            IN  /\ acc[a].pc = "idle" => Len(log) = 2 /\ IsTarget(log[2])
                /\ \A i \in 1..Len(log) :
                      IsTarget(log[i]) =>
                          /\ log[i].reg = address_ext[2]
                          /\ log[i].k =
                               (IF acc[a].op \in {"read_ext",
                                                  "get_interrupt_reg_val"}
                                THEN "r" ELSE "w")
                          /\ i > 1
                          /\ log[i - 1].k = "w"
                          /\ log[i - 1].reg = PAGE_REG
                          /\ log[i - 1].val = address_ext[1]
                          /\ log[i - 1].phy = log[i].phy
                          /\ log[i].phy = DevAddr

\* C1 witness: an extended access whose page was already the one the
\* accessor's previous extended access selected, and still selected in the
\* device, has written the page-select register again and reached its target.
C1_Witness_SamePageSelectedAgain ==
    \E a \in Accessors :
        /\ acc[a].op \in {"read_ext", "write_ext"}
        /\ acc[a].pc = "idle"
        /\ acc[a].prior = acc[a].arg[1][1]
        /\ Len(acc[a].log) = 2
        /\ acc[a].log[1].reg = PAGE_REG
        /\ acc[a].log[1].page = acc[a].arg[1][1]
        /\ acc[a].log[1].val = acc[a].arg[1][1]

\* C6: when each two-step sequence has exclusive use of the transport, the
\* target operation of every extended access is performed while the device
\* has the page of the call's address selected, at the offset of the call's
\* address: the access hits exactly the (page, offset) it was called with.
C6_ExclusiveAccessHitsItsPage ==
    exclusive =>
        \A a \in Accessors :
            acc[a].op \in ExtCalls =>
                \A i \in 1..Len(acc[a].log) :
                    IsTarget(acc[a].log[i]) =>
                        /\ acc[a].log[i].page = CallAddress(a)[1]
                        /\ acc[a].log[i].reg = CallAddress(a)[2]

\* C6 witness: without exclusive use, an accessor wrote its page select, the
\* other accessor's page select landed before the target access, and the
\* target access was performed on the other accessor's page.
C6_Witness_InterleavedSelectCorrupts ==
    /\ ~exclusive
    /\ \E a \in Accessors, b \in Accessors :
          /\ a # b
          /\ acc[a].op \in {"read_ext", "write_ext"}
          /\ acc[a].pc = "idle"
          /\ Len(acc[a].log) = 2
          /\ acc[a].log[1].reg = PAGE_REG
          /\ acc[a].log[1].val = CallAddress(a)[1]
          /\ acc[a].log[2].reg = CallAddress(a)[2]
          /\ acc[a].log[2].page # CallAddress(a)[1]
          /\ acc[b].selected = acc[a].log[2].page

(***************************************************************************)
(* Properties of the clock controller.                                     *)
(***************************************************************************)
\* The indices of the log's writes of (page 4, offset): writes of register
\* offset issued right after the page-select write of the address's page.
WritesOf(log, address_ext) ==
    { i \in 2..Len(log) :
        /\ log[i].k = "w"
        /\ log[i].reg = address_ext[2]
        /\ log[i - 1].k = "w"
        /\ log[i - 1].reg = PAGE_REG
        /\ log[i - 1].val = address_ext[1] }

ReadsOf(log, address_ext) ==
    { i \in 2..Len(log) :
        /\ log[i].k = "r"
        /\ log[i].reg = address_ext[2]
        /\ log[i - 1].k = "w"
        /\ log[i - 1].reg = PAGE_REG
        /\ log[i - 1].val = address_ext[1] }

\* C9 as claimed: a finished set_clock(value) has written the PTP control
\* register once, with the load bit, and has written value to the time
\* register after that control-register write.
C9_Claimed_TimeWriteAfterLoadWrite ==
    acc[PtpUser].op = "set_clock" /\ acc[PtpUser].pc = "idle" =>
        LET log == acc[PtpUser].log IN
        \E i \in WritesOf(log, PTPCTL_ADDRESS) :
            /\ WritesOf(log, PTPCTL_ADDRESS) = {i}
            /\ contains(log[i].val, PTPCTL_PTP_LOAD_CLK)
            /\ \E j \in WritesOf(log, PTP_TIME) :
                  /\ log[j].val = acc[PtpUser].arg[1]
                  /\ j > i

\* C9 amended: a finished set_clock(value) has written the PTP control
\* register (page 4, offset 0x14) exactly once, with the load bit set in the
\* flags it read from that register before, and has written value to the time
\* register (page 4, offset 0x15) exactly once, before that control-register
\* write.
C9_TimeWriteBeforeLoadWrite ==
    acc[PtpUser].op = "set_clock" /\ acc[PtpUser].pc = "idle" =>
        LET log == acc[PtpUser].log IN
        /\ Len(log) = 6
        /\ ReadsOf(log, PTPCTL_ADDRESS) = {2}
        /\ WritesOf(log, PTP_TIME) = {4}
        /\ WritesOf(log, PTPCTL_ADDRESS) = {6}
        /\ log[4].val = acc[PtpUser].arg[1]
        /\ log[6].val =
             insert(PTPCTL_from_bits_truncate(log[2].val), PTPCTL_PTP_LOAD_CLK)
        /\ contains(log[6].val, PTPCTL_PTP_LOAD_CLK)

\* C9 witness: set_clock has finished on a control register that had another
\* flag set, and its one control write carries that flag and the load bit.
C9_Witness_SetClockDone ==
    /\ acc[PtpUser].op = "set_clock"
    /\ acc[PtpUser].pc = "idle"
    /\ contains(acc[PtpUser].log[2].val, PTPCTL_PTP_ENABLE)
    /\ ~contains(acc[PtpUser].log[2].val, PTPCTL_PTP_LOAD_CLK)
    /\ contains(acc[PtpUser].log[6].val,
                PTPCTL_PTP_ENABLE + PTPCTL_PTP_LOAD_CLK)

\* C10: a finished read_clock() has written the PTP control register (page 4,
\* offset 0x14) with the read-request bit set, has read the time register
\* (page 4, offset 0x15) only after that write, and returns the value that
\* read delivered.
C10_ReadRequestBeforeTimeRead ==
    acc[PtpUser].op = "read_clock" /\ acc[PtpUser].pc = "idle" =>
        LET log == acc[PtpUser].log IN
        /\ Len(log) = 6
        /\ WritesOf(log, PTPCTL_ADDRESS) = {4}
        /\ contains(log[4].val, PTPCTL_PTP_RD_CLK)
        /\ ReadsOf(log, PTP_TIME) = {6}
        /\ acc[PtpUser].result = <<log[6].val>>
        /\ log[6].val = ext[PTP_TIME]

\* C10 witness: read_clock has returned a time the device held.
C10_Witness_ReadClockDone ==
    /\ acc[PtpUser].op = "read_clock"
    /\ acc[PtpUser].pc = "idle"
    /\ acc[PtpUser].result # <<0>>
    /\ acc[PtpUser].result = <<ext[PTP_TIME]>>
    /\ contains(ext[PTPCTL_ADDRESS], PTPCTL_PTP_RD_CLK)

(***************************************************************************)
(* Properties of the PHY controller.                                       *)
(***************************************************************************)
U == acc[PhyUser]

ExtendedCaps(bsr) == PhyStatus_from(bsr).extended_caps

\* The call has read the status register.
StatusRead == U.log # <<>> /\ U.log[1].k = "r" /\ U.log[1].reg = Bsr_ADDRESS

\* The technology bits of the requested advertisement that the status word
\* reports as supported, for all five technologies.
Intersection(ad, status) ==
    (IF ad.hd_10base_t /\ status.hd_10mbps THEN AutoNegCap_10BASET ELSE 0)
    + (IF ad.fd_10base_t /\ status.fd_10mbps THEN AutoNegCap_10BASETFD ELSE 0)
    + (IF ad.hd_100base_tx /\ status.hd_100base_x
       THEN AutoNegCap_100BASETX ELSE 0)
    + (IF ad.fd_100base_tx /\ status.fd_100base_x
       THEN AutoNegCap_100BASETXFD ELSE 0)
    + (IF ad.base100_t4 /\ status.base100_t4 THEN AutoNegCap_100BASET4 ELSE 0)

\* C2 as claimed: whenever set_autonegotiation_advertisement(ad) has written
\* the local-capability register (address 4), the technology bits of the
\* written value are exactly the requested technology bits that the status
\* register reports as supported, for all five technologies.
C2_Claimed_AdvertisedIsIntersection ==
    U.op = "set_autonegotiation_advertisement" =>
        \A i \in 1..Len(U.log) :
            U.log[i].k = "w" /\ U.log[i].reg = LOCAL_CAP_ADDRESS =>
                And(U.log[i].val, AutoNegCap_TECH) =
                    Intersection(U.arg, PhyStatus_from(U.status))

\* C3: when the status read at the start of phy_ident,
\* get_autonegotiation_caps or get_autonegotiation_partner_caps has the
\* extended-capabilities bit clear, the call has returned None and the read
\* of status register 1 is the only transport operation it issued.
C3_GatedReadsReturnNone ==
    /\ U.op \in {"phy_ident", "get_autonegotiation_caps",
                 "get_autonegotiation_partner_caps"}
    /\ StatusRead
    /\ ~ExtendedCaps(U.log[1].val)
    => /\ U.pc = "idle"
       /\ U.result = <<>>
       /\ Len(U.log) = 1

\* C3 witness: a gated read returned None from a PHY whose registers 2, 3, 4
\* and 5 hold something.
C3_Witness_GatedOff ==
    /\ U.op \in {"phy_ident", "get_autonegotiation_partner_caps"}
    /\ U.pc = "idle"
    /\ ~ExtendedCaps(regs[Bsr_ADDRESS])
    /\ U.result = <<>>
    /\ regs[PHY_IDENT_2] # 0
    /\ regs[PARTNER_CAP_ADDRESS] # 0

\* C4: when the status read of set_autonegotiation_advertisement(ad) has the
\* extended-capabilities bit clear, the call has returned after that one
\* read, without a write; and the step that returns leaves every register of
\* the device as it was.
C4_SetAdvertisementNoOp ==
    /\ [](/\ U.op = "set_autonegotiation_advertisement"
          /\ StatusRead
          /\ ~ExtendedCaps(U.log[1].val)
          => /\ U.pc = "idle"
             /\ Len(U.log) = 1)
    /\ [][ /\ U.pc = "set_ad_status"
           /\ ~ExtendedCaps(regs[Bsr_ADDRESS])
           /\ U' # U
           => regs' = regs /\ ext' = ext /\ U'.pc = "idle" ]_vars

\* C4 witness: the call returned as a no-op for an advertisement that asks
\* for technologies.
C4_Witness_NoOpDone ==
    /\ U.op = "set_autonegotiation_advertisement"
    /\ U.pc = "idle"
    /\ ~ExtendedCaps(U.status)
    /\ Len(U.log) = 1
    /\ U.arg.hd_10base_t
    /\ U.arg.base100_t4

\* C5: a finished set_autonegotiation_advertisement on a PHY with
\* extended_caps issued, after the status read, the write of register 4, then
\* one read of register 0, then one write of register 0 that has the
\* autonegotiation-enable and restart bits set in the control bits read; the
\* write of register 4 comes before the write of register 0 and nothing comes
\* between the read and the write of register 0.
C5_CapabilityWriteBeforeRestart ==
    /\ U.op = "set_autonegotiation_advertisement"
    /\ U.pc = "idle"
    /\ ExtendedCaps(U.status)
    => /\ Len(U.log) = 4
       /\ U.log[2].k = "w" /\ U.log[2].reg = LOCAL_CAP_ADDRESS
       /\ U.log[3].k = "r" /\ U.log[3].reg = Bcr_ADDRESS
       /\ U.log[4].k = "w" /\ U.log[4].reg = Bcr_ADDRESS
       /\ U.log[4].val =
            insert(insert(Bcr_from_bits_truncate(U.log[3].val),
                          Bcr_AUTONEG_ENABLE), Bcr_RESTART_AUTONEG)

\* C5 witness: the advertisement was set on a PHY with extended_caps whose
\* control register had neither bit set before.
C5_Witness_RestartDone ==
    /\ U.op = "set_autonegotiation_advertisement"
    /\ U.pc = "idle"
    /\ ExtendedCaps(U.status)
    /\ Len(U.log) = 4
    /\ ~contains(U.log[3].val, Bcr_AUTONEG_ENABLE)
    /\ contains(U.log[4].val, Bcr_AUTONEG_ENABLE + Bcr_RESTART_AUTONEG)
    /\ U.log[2].val # 0

\* C7: blocking_reset first issues the read and the write of control
\* register 0 that set the reset bit, and it has returned only when its last
\* transport operation is a later read of register 0 that shows the reset
\* bit clear; while it has not seen the bit clear it is still in its loop.
C7_BlockingResetReturnsAfterClearRead ==
    U.op = "blocking_reset" =>
        /\ (Len(U.log) >= 2 /\ Len(U.log) < MaxLog) =>
              /\ U.log[1].k = "r" /\ U.log[1].reg = Bcr_ADDRESS
              /\ U.log[2].k = "w" /\ U.log[2].reg = Bcr_ADDRESS
              /\ U.log[2].val = insert(Bcr_from_bits_truncate(U.log[1].val),
                                       Bcr_RESET)
              /\ \A i \in 3..Len(U.log) :
                    U.log[i].k = "r" /\ U.log[i].reg = Bcr_ADDRESS
        /\ U.pc = "idle" =>
              /\ U.polls >= 1
              /\ Len(U.log) >= 3
              /\ U.log[Len(U.log)].k = "r"
              /\ U.log[Len(U.log)].reg = Bcr_ADDRESS
              /\ ~contains(U.log[Len(U.log)].val, Bcr_RESET)
              /\ \A i \in 3..(Len(U.log) - 1) :
                    Len(U.log) < MaxLog => contains(U.log[i].val, Bcr_RESET)
        /\ U.polls >= 1 /\ contains(U.log[Len(U.log)].val, Bcr_RESET) =>
              U.pc = "is_resetting"

\* C7 witness: blocking_reset has returned after a poll that showed the reset
\* bit set and a later one that showed it clear.
C7_Witness_ReturnedAfterPolling ==
    /\ U.op = "blocking_reset"
    /\ U.pc = "idle"
    /\ Len(U.log) = 4
    /\ contains(U.log[3].val, Bcr_RESET)
    /\ ~contains(U.log[4].val, Bcr_RESET)

\* The accessor's steps inside blocking_reset.
BlockingResetStep ==
    \/ modify_bcr_read(PhyUser)
    \/ modify_bcr_write(PhyUser)
    \/ is_resetting(PhyUser)

\* The program keeps running, and the PHY completes a reset it has begun.
SpecFair ==
    /\ Init
    /\ [][Next]_vars
    /\ WF_vars(BlockingResetStep)
    /\ WF_vars(DeviceResetDone)

InBlockingReset == U.op = "blocking_reset" /\ U.pc # "idle"

\* C8: with a PHY that eventually clears the reset bit, a started
\* blocking_reset eventually returns; and a poll of blocking_reset that finds
\* the reset bit set never leaves the loop, whatever the number of polls
\* before it, so on a PHY that keeps the bit set the call never returns.
C8_BlockingResetTerminatesIffBitClears ==
    /\ InBlockingReset ~> (U.op = "blocking_reset" /\ U.pc = "idle")
    /\ [][ /\ U.op = "blocking_reset"
           /\ U.pc = "is_resetting"
           /\ contains(regs[Bcr_ADDRESS], Bcr_RESET)
           /\ U' # U
           => U'.pc = "is_resetting" ]_vars

\* C8 witness: blocking_reset is in its loop after MaxPolls polls, the reset
\* bit still set.
C8_Witness_StillPolling ==
    /\ U.op = "blocking_reset"
    /\ U.pc = "is_resetting"
    /\ U.polls = MaxPolls
    /\ Len(U.log) = MaxLog
    /\ contains(regs[Bcr_ADDRESS], Bcr_RESET)

(***************************************************************************)
(* The rate registers: the DP83640 accessor sets the rate while a second   *)
(* accessor on the same bus reads paged registers.                         *)
(***************************************************************************)
\* The accessor that reads while PtpUser sets the rate.
Reader == "B"

\* Extended addresses the reader passes to read_ext.
RateAddrs == { PTP_RATEH, PTP_RATEL }

\* The 32-bit value the pair of rate registers holds.
RatePair == ext[PTP_RATEH] * Word + ext[PTP_RATEL]

\* The paged registers with the rate registers holding rate.
PagedRate(rate) ==
    [c \in Pages \X PagedRegs |->
        CASE c = PTP_RATEH -> (rate \div Word) % Word
          [] c = PTP_RATEL -> rate % Word
          [] OTHER -> 0]

\* read_ext called with the address of one of the rate registers.
call_read_ext_rate(a) ==
    /\ acc[a].pc = "idle"
    /\ \E address_ext \in RateAddrs :
         acc' = Begin(a, "read_ext", <<address_ext>>,
                      read_ext(address_ext, "result", 0))
    /\ UNCHANGED <<regs, ext, exclusive>>

\* The PHY with any page selected and any rate in its rate registers.
InitRate ==
    /\ \E page \in Pages :
         regs = Device(0, Bsr_EXTENDED_CAPABILITIES, <<0, 0, 0, 0>>, page)
    /\ \E rate \in RateValues : ext = PagedRate(rate)
    /\ acc = [a \in Accessors |-> new(DevAddr)]
    /\ exclusive \in BOOLEAN

NextRate ==
    \/ call_set_rate_control(PtpUser)
    \/ transfer(PtpUser)
    \/ call_read_ext_rate(Reader)
    \/ call_get_interrupt_reg_val(Reader)
    \/ transfer(Reader)

SpecRate == InitRate /\ [][NextRate]_vars

\* C11: set_rate_control(rate) issues two paged writes, the high 16 bits of
\* rate to (page 4, offset 0x19) and then the low 16 bits to (page 4, offset
\* 0x18), each behind its own page select; when it has finished with
\* exclusive use of the transport for each paged write, the rate registers
\* hold high * 2^16 + low = rate.
C11_RateWrittenAsTwoHalves ==
    acc[PtpUser].op = "set_rate_control" /\ acc[PtpUser].pc = "idle" =>
        LET log  == acc[PtpUser].log
            rate == acc[PtpUser].arg[1]
        IN  /\ Len(log) = 4
            /\ WritesOf(log, PTP_RATEH) = {2}
            /\ WritesOf(log, PTP_RATEL) = {4}
            /\ log[2].val = (rate \div Word) % Word
            /\ log[4].val = rate % Word
            /\ log[2].val * Word + log[4].val = rate
            /\ exclusive =>
                  /\ ext[PTP_RATEH] = (rate \div Word) % Word
                  /\ ext[PTP_RATEL] = rate % Word
                  /\ RatePair = rate

\* C11 witness: set_rate_control has written the high half and not yet the
\* low half; the rate registers hold a value that is neither the rate being
\* set nor any rate set before, and the reader has finished a read of the
\* high register that delivered the new high half.
C11_Witness_TornRateObserved ==
    /\ exclusive
    /\ acc[PtpUser].op = "set_rate_control"
    /\ acc[PtpUser].pc = "transfer"
    /\ Len(acc[PtpUser].log) = 2
    /\ RatePair # acc[PtpUser].arg[1]
    /\ RatePair \notin RateValues
    /\ ext[PTP_RATEL] # acc[PtpUser].arg[1] % Word
    /\ acc[Reader].op = "read_ext"
    /\ acc[Reader].pc = "idle"
    /\ acc[Reader].arg = <<PTP_RATEH>>
    /\ acc[Reader].result = <<(acc[PtpUser].arg[1] \div Word) % Word>>
    /\ acc[Reader].result = <<ext[PTP_RATEH]>>

(***************************************************************************)
(* The conversions between register words and domain values (lib.rs),     *)
(* applied to every 16-bit word: a word is converted to the domain value,  *)
(* and the domain value back to flags.                                     *)
(***************************************************************************)
\* The words a register can hold.
Words == 0..(Word - 1)

Bcr_SPEED_SEL == Bcr_SPEED_SEL_MSB + Bcr_SPEED_SEL_LSB

AutoNegCap_PAUSE_BITS == AutoNegCap_ASSYMETRIC_PAUSE + AutoNegCap_PAUSE

\* The word the program of accessor a was given to convert.
Given(a) == acc[a].arg[1]

\* The program has not converted its word yet.
Fresh(a) == acc[a].pc = "idle" /\ acc[a].op = "new"

\* The accessor after a conversion of its word to the domain value.
Converted(a, op, value, pc) ==
    [acc EXCEPT ![a] =
        [Enter(a, op, acc[a].arg, pc) EXCEPT !.result = <<value>>]]

\* Pause::from(AutoNegCap)
Pause_from_AutoNegCap(a) ==
    /\ Fresh(a)
    /\ acc' = Converted(a, "Pause",
                        Pause_from(AutoNegCap_from_bits_truncate(Given(a))),
                        "into")
    /\ UNCHANGED <<regs, ext, exclusive>>

\* Option<SelectorField>::from(AutoNegCap); an absent value is not converted
\* back.
SelectorField_from_AutoNegCap(a) ==
    /\ Fresh(a)
    /\ LET sf == SelectorField_from(AutoNegCap_from_bits_truncate(Given(a)))
       IN  acc' = Converted(a, "SelectorField", sf,
                            IF sf = "None" THEN "idle" ELSE "into")
    /\ UNCHANGED <<regs, ext, exclusive>>

\* LinkSpeed::from(Bcr)
LinkSpeed_from_Bcr(a) ==
    /\ Fresh(a)
    /\ acc' = Converted(a, "LinkSpeed",
                        LinkSpeed_from(Bcr_from_bits_truncate(Given(a))),
                        "into")
    /\ UNCHANGED <<regs, ext, exclusive>>

\* AutoNegCap::from(Pause)
AutoNegCap_from_Pause(a) ==
    /\ acc[a].pc = "into"
    /\ acc[a].op = "Pause"
    /\ acc' = [acc EXCEPT ![a] =
                 [@ EXCEPT !.ana = AutoNegCap_from_pause(acc[a].result[1]),
                           !.pc = "idle"]]
    /\ UNCHANGED <<regs, ext, exclusive>>

\* AutoNegCap::from(SelectorField)
AutoNegCap_from_SelectorField(a) ==
    /\ acc[a].pc = "into"
    /\ acc[a].op = "SelectorField"
    /\ acc' = [acc EXCEPT ![a] =
                 [@ EXCEPT !.ana = AutoNegCap_from_selector(acc[a].result[1]),
                           !.pc = "idle"]]
    /\ UNCHANGED <<regs, ext, exclusive>>

\* Bcr::from(LinkSpeed): the flags, or the panic that ends the program.
Bcr_from_LinkSpeed(a) ==
    /\ acc[a].pc = "into"
    /\ acc[a].op = "LinkSpeed"
    /\ LET bcr == Bcr_from(acc[a].result[1]) IN
         acc' = [acc EXCEPT ![a] =
                   IF bcr = <<>>
                   THEN [@ EXCEPT !.pc = "panic"]
                   ELSE [@ EXCEPT !.bcr = bcr[1], !.pc = "idle"]]
    /\ UNCHANGED <<regs, ext, exclusive>>

\* PhyStatus::from(Bsr) and best_autoneg_ad of that status.
best_autoneg_ad(a) ==
    /\ Fresh(a)
    /\ LET status == PhyStatus_from(Bsr_from_bits_truncate(Given(a))) IN
         acc' = Converted(a, "best_autoneg_ad",
                          PhyStatus_best_autoneg_ad(status), "idle")
    /\ UNCHANGED <<regs, ext, exclusive>>

\* A program that is given any word to convert.
InitConv ==
    /\ regs = Device(0, 0, <<0, 0, 0, 0>>, 0)
    /\ ext = [c \in Pages \X PagedRegs |-> 0]
    /\ \E raw \in Words :
         acc = [a \in Accessors |->
                  IF a = PhyUser THEN [new(DevAddr) EXCEPT !.arg = <<raw>>]
                  ELSE new(DevAddr)]
    /\ exclusive = TRUE

NextConv ==
    \/ Pause_from_AutoNegCap(PhyUser)
    \/ SelectorField_from_AutoNegCap(PhyUser)
    \/ LinkSpeed_from_Bcr(PhyUser)
    \/ AutoNegCap_from_Pause(PhyUser)
    \/ AutoNegCap_from_SelectorField(PhyUser)
    \/ Bcr_from_LinkSpeed(PhyUser)
    \/ best_autoneg_ad(PhyUser)

SpecConv == InitConv /\ [][NextConv]_vars

\* The call converted the word to a domain value and the value back.
RoundTripDone(op) ==
    /\ U.op = op
    /\ U.pc = "idle"
    /\ U.result # <<"None">>

\* C12: a word converted to Pause, to a present SelectorField or to a
\* LinkSpeed other than Illegal, and converted back, gives the pause bits,
\* the five selector bits, the two speed-select bits of the word: a word that
\* is one of the four pause patterns, one of the four selector patterns or
\* one of the three legal speed-select patterns comes back as itself.
C12_RawDomainRawIsIdentity ==
    /\ RoundTripDone("Pause") =>
          /\ U.ana = And(U.arg[1], AutoNegCap_PAUSE_BITS)
          /\ And(U.arg[1], AutoNegCap_PAUSE_BITS) = U.arg[1] => U.ana = U.arg[1]
    /\ RoundTripDone("SelectorField") =>
          /\ U.ana = And(U.arg[1], AutoNegCap_SEL_MASK)
          /\ U.arg[1] \in {AutoNegCap_SEL_802_3, AutoNegCap_SEL_802_9_ISLAN_16T,
                            AutoNegCap_SEL_802_5, AutoNegCap_SEL_1394}
                => U.ana = U.arg[1]
    /\ RoundTripDone("LinkSpeed") =>
          /\ U.bcr = And(U.arg[1], Bcr_SPEED_SEL)
          /\ U.arg[1] \in {0, Bcr_SPEED_SEL_LSB, Bcr_SPEED_SEL_MSB}
                => U.bcr = U.arg[1]
    /\ \A raw \in {AutoNegCap_SEL_802_3, AutoNegCap_SEL_802_9_ISLAN_16T,
                    AutoNegCap_SEL_802_5, AutoNegCap_SEL_1394} :
          U.op = "SelectorField" /\ U.arg = <<raw>> => U.result # <<"None">>
    /\ \A raw \in {0, Bcr_SPEED_SEL_LSB, Bcr_SPEED_SEL_MSB} :
          U.op = "LinkSpeed" /\ U.arg = <<raw>> => U.pc # "panic"

\* C12 witness: the pause pattern with both bits set has come back as
\* itself.
C12_Witness_BothPauseBitsBack ==
    /\ RoundTripDone("Pause")
    /\ U.arg = <<AutoNegCap_PAUSE_BITS>>
    /\ U.result = <<"SymmetricAndAsymmetricLocal">>
    /\ U.ana = AutoNegCap_PAUSE_BITS

\* The four known selector patterns.
KnownSelectors ==
    { AutoNegCap_SEL_802_3, AutoNegCap_SEL_802_9_ISLAN_16T,
      AutoNegCap_SEL_802_5, AutoNegCap_SEL_1394 }

\* The 5-bit selector field of the word the program was given.
SelectorBits == And(Given(PhyUser), AutoNegCap_SEL_MASK)

\* C13 as claimed: a selector field that has the bits of a known pattern and
\* further bits set decodes to None, never to a known SelectorField value.
C13_Claimed_ExtraBitsDecodeToNone ==
    U.op = "SelectorField" =>
        \A p \in KnownSelectors :
            contains(SelectorBits, p) /\ SelectorBits # p =>
                U.result = <<"None">>

\* C13 amended: whatever the non-selector bits of the word, the word decodes
\* to a SelectorField value exactly when its masked 5-bit field equals that
\* value's pattern, and to None exactly when the field equals none of the
\* four patterns; a field with extra bits beyond a known pattern never
\* decodes to the value of that pattern.
C13_ExactSelectorMatch ==
    U.op = "SelectorField" =>
        /\ U.result = <<"Std802_3">> <=> SelectorBits = AutoNegCap_SEL_802_3
        /\ U.result = <<"Std802_9Islan16t">>
              <=> SelectorBits = AutoNegCap_SEL_802_9_ISLAN_16T
        /\ U.result = <<"Std802_5">> <=> SelectorBits = AutoNegCap_SEL_802_5
        /\ U.result = <<"Std1394">> <=> SelectorBits = AutoNegCap_SEL_1394
        /\ U.result = <<"None">> <=> SelectorBits \notin KnownSelectors
        /\ \A p \in KnownSelectors :
              contains(SelectorBits, p) /\ SelectorBits # p =>
                  U.result # <<SelectorField_from(p)>>

\* C13 witness: a word with non-selector bits set whose selector field is
\* the 802.3 pattern with one more bit, and is no known pattern, has decoded
\* to None.
C13_Witness_ExtraBitIsNone ==
    /\ U.op = "SelectorField"
    /\ U.pc = "idle"
    /\ Given(PhyUser) = AutoNegCap_100BASET4 + AutoNegCap_SEL_1394
                            + AutoNegCap_SEL_802_3
    /\ U.result = <<"None">>

\* C14: control-register bits convert to LinkSpeed::Illegal exactly when both
\* speed-select bits are set; converting Illegal back to control-register
\* bits panics, so that the conversion never returns and no flags are
\* produced, and each of the three other LinkSpeed values converts back
\* without a panic.
C14_IllegalOnlyFromBothBitsAndPanicsBack ==
    U.op = "LinkSpeed" =>
        /\ U.result = <<"Illegal">> <=> contains(Given(PhyUser), Bcr_SPEED_SEL)
        /\ U.result = <<"Illegal">> =>
              /\ U.pc \in {"into", "panic"}
              /\ Bcr_from(U.result[1]) = <<>>
        /\ U.result # <<"Illegal">> =>
              /\ U.pc \in {"into", "idle"}
              /\ U.result[1] \in {"Mpbs1000", "Mbps100", "Mpbs10"}
              /\ Len(Bcr_from(U.result[1])) = 1
        /\ U.pc = "panic" => U.result = <<"Illegal">> /\ U.bcr = 0

\* C14 witness: a control word with both speed-select bits set, among other
\* bits, was converted to Illegal and the conversion back has panicked.
C14_Witness_IllegalPanicked ==
    /\ U.op = "LinkSpeed"
    /\ U.pc = "panic"
    /\ Given(PhyUser) = Bcr_SPEED_SEL + Bcr_DUPLEX_MODE
    /\ U.result = <<"Illegal">>

(***************************************************************************)
(* The identifier: phy_ident on a PHY with any second identifier word, and *)
(* the accessors of the PhyIdent it returns.                               *)
(***************************************************************************)
\* First identifier words.
IdentMsbValues == { 8192, Word - 1 }

\* The identifier words phy_ident returned.
Ident(a) == acc[a].result[1]

\* phy_ident has returned an identifier.
HasIdent(a) ==
    /\ acc[a].pc = "idle"
    /\ acc[a].op = "phy_ident"
    /\ acc[a].result # <<>>

\* PhyIdent::model_number of the identifier phy_ident returned.
model_number(a) ==
    /\ HasIdent(a)
    /\ acc' = [acc EXCEPT ![a] =
                 [Enter(a, "model_number", Ident(a), "idle")
                    EXCEPT !.result = <<PhyIdent_model_number(Ident(a))>>]]
    /\ UNCHANGED <<regs, ext, exclusive>>

\* PhyIdent::revision of the identifier phy_ident returned.
revision(a) ==
    /\ HasIdent(a)
    /\ acc' = [acc EXCEPT ![a] =
                 [Enter(a, "revision", Ident(a), "idle")
                    EXCEPT !.result = <<PhyIdent_revision(Ident(a))>>]]
    /\ UNCHANGED <<regs, ext, exclusive>>

\* A PHY with any second identifier word, with and without extended
\* capabilities.
InitIdent ==
    /\ \E bsr \in {Bsr_AUTONEG_ABLE,
                    Bsr_AUTONEG_ABLE + Bsr_EXTENDED_CAPABILITIES},
          msb \in IdentMsbValues, lsb \in Words :
          regs = Device(0, bsr, <<msb, lsb, 0, 0>>, 0)
    /\ ext = [c \in Pages \X PagedRegs |-> 0]
    /\ acc = [a \in Accessors |-> new(DevAddr)]
    /\ exclusive = TRUE

NextIdent ==
    \/ phy_ident(PhyUser)
    \/ phy_ident_status(PhyUser)
    \/ phy_ident_msb(PhyUser)
    \/ phy_ident_lsb(PhyUser)
    \/ model_number(PhyUser)
    \/ revision(PhyUser)

SpecIdent == InitIdent /\ [][NextIdent]_vars

\* C15: with extended_caps true, a finished phy_ident has read the status
\* register, then register 2, then register 3, and returns (word of register
\* 2, word of register 3); of the identifier returned, for every second
\* word, revision() is its bits 3..0 and model_number() its bits 9..4,
\* whatever the first word; the second word 0b0000_0011_0101_0110 gives model
\* number 53 and revision 6.
C15_IdentComposedAndSliced ==
    /\ U.op = "phy_ident" /\ U.pc = "idle" /\ ExtendedCaps(U.status) =>
          /\ Len(U.log) = 3
          /\ U.log[2].k = "r" /\ U.log[2].reg = PHY_IDENT_1
          /\ U.log[3].k = "r" /\ U.log[3].reg = PHY_IDENT_2
          /\ U.result = << <<U.log[2].val, U.log[3].val>> >>
          /\ U.result = << <<regs[PHY_IDENT_1], regs[PHY_IDENT_2]>> >>
    /\ U.op = "model_number" =>
          /\ U.arg = <<regs[PHY_IDENT_1], regs[PHY_IDENT_2]>>
          /\ U.result = <<(U.arg[2] \div Bit(4)) % Bit(6)>>
          /\ U.arg[2] = 854 => U.result = <<53>>
    /\ U.op = "revision" =>
          /\ U.arg = <<regs[PHY_IDENT_1], regs[PHY_IDENT_2]>>
          /\ U.result = <<U.arg[2] % Bit(4)>>
          /\ U.arg[2] = 854 => U.result = <<6>>

\* C15 witness: the model number 53 was taken from an identifier whose
\* second word has the bits of 0b0000_0011_0101_0110 below bit 10 and every
\* bit above set, and whose first word has every bit set.
C15_Witness_ModelNumberSliced ==
    /\ U.op = "model_number"
    /\ U.arg = <<Word - 1, (Word - Bit(10)) + 854>>
    /\ U.result = <<53>>

(***************************************************************************)
(* The extended status: the default esr and extended_status of trait Phy.  *)
(***************************************************************************)
\* Phy::esr
esr(a) ==
    /\ acc[a].pc = "idle"
    /\ acc' = [acc EXCEPT ![a] = Enter(a, "esr", <<>>, "esr_status")]
    /\ UNCHANGED <<regs, ext, exclusive>>

\* Phy::extended_status: self.esr() mapped to the four flags.
extended_status(a) ==
    /\ acc[a].pc = "idle"
    /\ acc' = [acc EXCEPT ![a] = Enter(a, "extended_status", <<>>, "esr_status")]
    /\ UNCHANGED <<regs, ext, exclusive>>

\* Phy::esr reading register 15 whatever the status says.
esr_status_ungated(a) ==
    /\ acc[a].pc = "esr_status"
    /\ LET bsr == Bsr_from_bits_truncate(MiimRead(Bsr_ADDRESS)) IN
         acc' = [acc EXCEPT ![a] =
                   [@ EXCEPT !.status = bsr,
                             !.log = LogRead(a, Bsr_ADDRESS),
                             !.result = <<>>,
                             !.pc = "esr_read"]]
    /\ UNCHANGED <<regs, ext, exclusive>>

\* Phy::esr: self.status(), and None unless it has extended_status.
esr_status(a) ==
    /\ acc[a].pc = "esr_status"
    /\ LET bsr == Bsr_from_bits_truncate(MiimRead(Bsr_ADDRESS)) IN
         acc' = [acc EXCEPT ![a] =
                   [@ EXCEPT !.status = bsr,
                             !.log = LogRead(a, Bsr_ADDRESS),
                             !.result = <<>>,
                             !.pc = IF PhyStatus_from(bsr).extended_status
                                    THEN "esr_read" ELSE "idle"]]
    /\ UNCHANGED <<regs, ext, exclusive>>

\* Phy::esr: the read of register 15; extended_status maps it to the flags.
esr_read(a) ==
    /\ acc[a].pc = "esr_read"
    /\ LET flags == Esr_from_bits_truncate(MiimRead(Esr_ADDRESS)) IN
         acc' = [acc EXCEPT ![a] =
                   [@ EXCEPT !.result =
                                 IF acc[a].op = "extended_status"
                                 THEN <<ExtendedPhyStatus_from(flags)>>
                                 ELSE <<flags>>,
                             !.log = LogRead(a, Esr_ADDRESS),
                             !.pc = "idle"]]
    /\ UNCHANGED <<regs, ext, exclusive>>

\* Status words with and without the extended-status bit.
EsrStatusValues ==
    { s + e : s \in {Bsr_AUTONEG_ABLE,
                     Bsr_100BASEXFD + Bsr_UNIDRECTIONAL + Bit(9)
                         + Bsr_EXTENDED_CAPABILITIES},
              e \in {0, Bsr_EXTENDED_STATUS} }

\* Extended status words: every set of the four flags, over two settings of
\* the other bits.
EsrValues ==
    { And(f * Bit(12) + o, Word - 1) : f \in 0..15, o \in {0, Bit(12) - 1} }

InitEsr ==
    /\ \E bsr \in EsrStatusValues, v \in EsrValues :
          regs = [Device(0, bsr, <<0, 0, 0, 0>>, 0) EXCEPT ![Esr_ADDRESS] = v]
    /\ ext = [c \in Pages \X PagedRegs |-> 0]
    /\ acc = [a \in Accessors |-> new(DevAddr)]
    /\ exclusive = TRUE

NextEsr ==
    \/ esr(PhyUser)
    \/ extended_status(PhyUser)
    \/ esr_status(PhyUser)
    \/ esr_read(PhyUser)

SpecEsr == InitEsr /\ [][NextEsr]_vars

\* C16: esr() and extended_status() of the default implementation first read
\* status register 1; when the extended-status bit of that read is set they
\* then read register 15, once, and return its four gigabit flags; when it
\* is clear they return None and the status read is their only transport
\* operation.
C16_ExtendedStatusGated ==
    U.op \in {"esr", "extended_status"} /\ U.log # <<>> =>
        /\ U.log[1].k = "r" /\ U.log[1].reg = Bsr_ADDRESS
        /\ \A i \in 2..Len(U.log) :
              /\ i = 2
              /\ U.log[i].k = "r" /\ U.log[i].reg = Esr_ADDRESS
              /\ contains(U.log[1].val, Bsr_EXTENDED_STATUS)
        /\ contains(U.log[1].val, Bsr_EXTENDED_STATUS) =>
              /\ U.pc = "idle" <=> Len(U.log) = 2
              /\ U.pc = "idle" /\ U.op = "esr" =>
                    U.result = <<Esr_from_bits_truncate(U.log[2].val)>>
              /\ U.pc = "idle" /\ U.op = "extended_status" =>
                    U.result =
                      << [ fd_1000base_x |-> contains(U.log[2].val, Bit(15)),
                           hd_1000base_x |-> contains(U.log[2].val, Bit(14)),
                           fd_1000base_t |-> contains(U.log[2].val, Bit(13)),
                           hd_1000base_t |-> contains(U.log[2].val, Bit(12)) ] >>
        /\ ~contains(U.log[1].val, Bsr_EXTENDED_STATUS) =>
              /\ U.pc = "idle"
              /\ U.result = <<>>
              /\ Len(U.log) = 1

\* C16 witness: extended_status has returned None, after the status read
\* alone, on a PHY whose register 15 has gigabit flags set.
C16_Witness_NoneWithoutEsrRead ==
    /\ U.op = "extended_status"
    /\ U.pc = "idle"
    /\ ~contains(regs[Bsr_ADDRESS], Bsr_EXTENDED_STATUS)
    /\ contains(regs[Esr_ADDRESS], Esr_1000BASETFD)
    /\ U.result = <<>>
    /\ Len(U.log) = 1

(***************************************************************************)
(* Further properties of the PHY controller.                               *)
(***************************************************************************)
\* The control flags other than the reset bit.
Bcr_others == Bcr_all - Bcr_RESET

\* C17: reset() issues two transport operations and no more: a read of
\* control register 0, then a write of control register 0 whose value is the
\* control flags read with the reset bit set, the other control flags as
\* read; it has returned exactly when both are issued, without any further
\* read.
C17_ResetIsOneReadModifyWrite ==
    U.op = "reset" =>
        /\ Len(U.log) <= 2
        /\ U.pc = "idle" <=> Len(U.log) = 2
        /\ Len(U.log) >= 1 =>
              U.log[1].k = "r" /\ U.log[1].reg = Bcr_ADDRESS
        /\ Len(U.log) = 2 =>
              /\ U.log[2].k = "w" /\ U.log[2].reg = Bcr_ADDRESS
              /\ contains(U.log[2].val, Bcr_RESET)
              /\ And(U.log[2].val, Bcr_others) = And(U.log[1].val, Bcr_others)
              /\ U.log[2].val =
                    insert(Bcr_from_bits_truncate(U.log[1].val), Bcr_RESET)

\* C17 witness: reset has returned while the PHY still has the reset bit
\* set, after a read that showed the reset bit clear and other flags set.
C17_Witness_ReturnedWhileResetting ==
    /\ U.op = "reset"
    /\ U.pc = "idle"
    /\ Len(U.log) = 2
    /\ ~contains(U.log[1].val, Bcr_RESET)
    /\ contains(U.log[1].val, Bcr_DUPLEX_MODE + Bcr_SPEED_SEL_LSB)
    /\ contains(U.log[2].val, Bcr_RESET + Bcr_DUPLEX_MODE + Bcr_SPEED_SEL_LSB)
    /\ contains(regs[Bcr_ADDRESS], Bcr_RESET)

\* C18: for the PhyStatus of every status word, best_autoneg_ad() returns
\* the advertisement whose five technology flags are the five support flags
\* of the status (100BASE-T4, 100BASE-X full and half duplex as 100BASE-TX
\* full and half duplex, 10 Mb/s full and half duplex), with the selector
\* field 802.3 and the pause NoPause; no other bit of the status word has an
\* influence.
C18_BestAdvertisementMirrorsStatus ==
    U.op = "best_autoneg_ad" =>
        U.result =
          << [ selector_field |-> "Std802_3",
               hd_10base_t    |-> contains(Given(PhyUser), Bsr_10MBPSHD),
               fd_10base_t    |-> contains(Given(PhyUser), Bsr_10MPBSFD),
               hd_100base_tx  |-> contains(Given(PhyUser), Bsr_100BASEXHD),
               fd_100base_tx  |-> contains(Given(PhyUser), Bsr_100BASEXFD),
               base100_t4     |-> contains(Given(PhyUser), Bsr_100BASET4),
               pause          |-> "NoPause" ] >>

\* C18 witness: the status word with every bit set but 100BASE-X half duplex
\* gave the advertisement with every technology but 100BASE-TX half duplex.
C18_Witness_AllButOneTechnology ==
    /\ U.op = "best_autoneg_ad"
    /\ Given(PhyUser) = (Word - 1) - Bsr_100BASEXHD
    /\ U.result[1].base100_t4
    /\ U.result[1].fd_100base_tx
    /\ ~U.result[1].hd_100base_tx
    /\ U.result[1].fd_10base_t
    /\ U.result[1].hd_10base_t
    /\ U.result[1].pause = "NoPause"

(***************************************************************************)
(* Further properties of the clock controller.                             *)
(***************************************************************************)
P == acc[PtpUser]

\* The flag each read-modify-write of the PTP control register sets.
FlagOf(op) ==
    CASE op = "start_ptp" -> PTPCTL_PTP_ENABLE
      [] op = "stop_ptp" -> PTPCTL_PTP_DISABLE
      [] op = "reset_clock" -> PTPCTL_PTP_RESET
      [] op = "set_clock" -> PTPCTL_PTP_LOAD_CLK
      [] op = "read_clock" -> PTPCTL_PTP_RD_CLK

\* C19 as claimed: every write of the PTP control register by start_ptp,
\* stop_ptp, reset_clock, set_clock and read_clock carries the 16-bit value
\* the call read from that register with the one named bit set and every
\* other bit of the word as read.
C19_Claimed_ControlWritePreservesWord ==
    P.op \in {"start_ptp", "stop_ptp", "reset_clock", "set_clock",
              "read_clock"} =>
        \A i \in WritesOf(P.log, PTPCTL_ADDRESS) :
            /\ 2 \in ReadsOf(P.log, PTPCTL_ADDRESS)
            /\ P.log[i].val = insert(P.log[2].val, FlagOf(P.op))

\* The calls of start_ptp and stop_ptp, and what started() returns.
C20_Calls ==
    /\ P.op \in {"start_ptp", "stop_ptp"} /\ P.pc = "idle" =>
          LET other == IF P.op = "start_ptp" THEN PTPCTL_PTP_DISABLE
                       ELSE PTPCTL_PTP_ENABLE
          IN  /\ Len(P.log) = 4
              /\ ReadsOf(P.log, PTPCTL_ADDRESS) = {2}
              /\ WritesOf(P.log, PTPCTL_ADDRESS) = {4}
              /\ contains(P.log[4].val, FlagOf(P.op))
              /\ contains(P.log[4].val, other) <=> contains(P.log[2].val, other)
              /\ ext[PTPCTL_ADDRESS] = P.log[4].val
    /\ P.op = "stop_ptp" /\ P.pc = "idle"
          /\ contains(P.log[2].val, PTPCTL_PTP_ENABLE) =>
              contains(ext[PTPCTL_ADDRESS],
                       PTPCTL_PTP_ENABLE + PTPCTL_PTP_DISABLE)
    /\ P.op = "started" /\ P.pc = "idle" =>
          /\ Len(P.log) = 2
          /\ ReadsOf(P.log, PTPCTL_ADDRESS) = {2}
          /\ P.log[2].val = ext[PTPCTL_ADDRESS]
          /\ P.result = <<contains(P.log[2].val, PTPCTL_PTP_ENABLE)>>

\* C20: start_ptp writes the control word it read with the enable bit set
\* and the disable bit as read, stop_ptp with the disable bit set and the
\* enable bit as read; no step of any call clears the enable bit or the
\* disable bit in the device, so that once start_ptp has set the enable bit,
\* stop_ptp leaves the register with both bits set and started() still
\* returns true; started() returns the enable bit of one paged read of the
\* control register.
C20_StopLeavesEnableSet ==
    /\ []C20_Calls
    /\ [][ contains(ext[PTPCTL_ADDRESS], PTPCTL_PTP_ENABLE)
             => contains(ext'[PTPCTL_ADDRESS], PTPCTL_PTP_ENABLE) ]_vars
    /\ [][ contains(ext[PTPCTL_ADDRESS], PTPCTL_PTP_DISABLE)
             => contains(ext'[PTPCTL_ADDRESS], PTPCTL_PTP_DISABLE) ]_vars

\* C20 witness: started() has returned true from a control register that
\* holds the enable bit and the disable bit and nothing else: the word left
\* by start_ptp and stop_ptp.
C20_Witness_StartedAfterStop ==
    /\ P.op = "started"
    /\ P.pc = "idle"
    /\ P.result = <<TRUE>>
    /\ ext[PTPCTL_ADDRESS] = PTPCTL_PTP_ENABLE + PTPCTL_PTP_DISABLE

(***************************************************************************)
(* The selected page: one DP83640 accessor mixing extended accesses on     *)
(* page 0, clock operations on page 4 and link_speed.                      *)
(***************************************************************************)
InitPage ==
    /\ \E page \in Pages :
         regs = Device(0, Bsr_EXTENDED_CAPABILITIES, <<0, 0, 0, 0>>, page)
    /\ \E ctl \in PtpCtlValues, physts \in PhystsValues :
         ext = Paged(ctl, 0, physts)
    /\ acc = [a \in Accessors |-> new(DevAddr)]
    /\ exclusive = TRUE

NextPage ==
    \/ call_link_speed(PtpUser)
    \/ call_interrupt_enable(PtpUser)
    \/ call_get_interrupt_reg_val(PtpUser)
    \/ call_started(PtpUser)
    \/ call_start_ptp(PtpUser)
    \/ call_read_clock(PtpUser)
    \/ call_set_rate_control(PtpUser)
    \/ transfer(PtpUser)

SpecPage == InitPage /\ [][NextPage]_vars

ClockOps == {"started", "start_ptp", "read_clock", "set_rate_control"}

\* What holds in every state: the device's page and the calls of link_speed.
C21_Pages ==
    /\ P.selected # NoPage => regs[PAGE_REG] = P.selected
    /\ P.op \in ClockOps /\ P.log # <<>> => regs[PAGE_REG] = PTPCTL_ADDRESS[1]
    /\ P.op = "link_speed" =>
          /\ Len(P.log) <= 1
          /\ P.pc = "idle" <=> Len(P.log) = 1
          /\ P.selected = P.prior
          /\ P.log # <<>> =>
                /\ P.log[1].k = "r"
                /\ P.log[1].reg = PHYSTS_ADDRESS
                /\ P.log[1].page = regs[PAGE_REG]
                /\ P.prior # NoPage => P.log[1].page = P.prior
                /\ P.log[1].val = ext[<<P.log[1].page, PHYSTS_ADDRESS>>]
                /\ P.result = PhySpeed_from(And(P.log[1].val, Bit(3) - 1))

\* C21: the device's page-select register 0x13 holds the page of the
\* accessor's most recent extended access, page 4 after a clock operation,
\* and changes only by the page-select write of an extended access: no call
\* restores it.  link_speed() issues one transport operation, a read of
\* register 0x19 with no page-select write, and the device answers it from
\* register 0x19 of the page the previous extended access left selected.
C21_PageNeverRestored ==
    /\ []C21_Pages
    /\ [][ regs'[PAGE_REG] # regs[PAGE_REG] =>
              /\ P'.op # "link_speed"
              /\ P'.log # <<>>
              /\ P'.log[Len(P'.log)].k = "w"
              /\ P'.log[Len(P'.log)].reg = PAGE_REG
              /\ P'.log[Len(P'.log)].val = regs'[PAGE_REG] ]_vars

\* C21 witness: link_speed has read register 0x19 under page 4, left by a
\* clock operation, and reports no link, while the link status register of
\* page 0 reports the link up.
C21_Witness_LinkSpeedUnderClockPage ==
    /\ P.op = "link_speed"
    /\ P.pc = "idle"
    /\ P.prior = PTPCTL_ADDRESS[1]
    /\ P.log[1].page = PTPCTL_ADDRESS[1]
    /\ regs[PAGE_REG] = PTPCTL_ADDRESS[1]
    /\ PhySpeed_from(ext[<<0, PHYSTS_ADDRESS>>]) # <<>>
    /\ P.result = <<>>

\* The advertisement that a read of the local capability register decodes to.
LocalCaps ==
    AutoNegotiationAdvertisement_from(
        AutoNegCap_from_bits_truncate(regs[LOCAL_CAP_ADDRESS]))

\* The advertisement ad with each of its four 10/100 flags kept only where
\* the status supports the technology.
Supported(ad, status) ==
    [ selector_field |-> ad.selector_field,
      hd_10base_t    |-> ad.hd_10base_t /\ status.hd_10mbps,
      fd_10base_t    |-> ad.fd_10base_t /\ status.fd_10mbps,
      hd_100base_tx  |-> ad.hd_100base_tx /\ status.hd_100base_x,
      fd_100base_tx  |-> ad.fd_100base_tx /\ status.fd_100base_x,
      base100_t4     |-> ad.base100_t4,
      pause          |-> ad.pause ]

\* The status of the device.
DeviceStatus == PhyStatus_from(Bsr_from_bits_truncate(regs[Bsr_ADDRESS]))

\* set_autonegotiation_advertisement has returned on a device with
\* extended_caps.
SetAdDone ==
    /\ U.op = "set_autonegotiation_advertisement"
    /\ U.pc = "idle"
    /\ DeviceStatus.extended_caps

\* get_autonegotiation_caps has returned on a device with extended_caps.
GetCapsDone ==
    /\ U.op = "get_autonegotiation_caps"
    /\ U.pc = "idle"
    /\ DeviceStatus.extended_caps

\* C22: set-then-get round trip.  On a device with extended_caps, once
\* set_autonegotiation_advertisement(ad) has returned, register 4 decodes to
\* ad with its selector field, pause and base100_t4 as requested and each of
\* the four 10/100 flags equal to the requested flag AND the status support
\* flag; register 4 changes by nothing but the write of that call and the
\* status register never changes, so the call of get_autonegotiation_caps
\* that follows starts from that register and returns Some of that
\* advertisement.
C22_SetThenGetRoundTrip ==
    /\ [](SetAdDone => LocalCaps = Supported(U.arg, DeviceStatus))
    /\ [](GetCapsDone => U.result = <<LocalCaps>>)
    /\ [][ /\ regs'[Bsr_ADDRESS] = regs[Bsr_ADDRESS]
           /\ regs'[LOCAL_CAP_ADDRESS] # regs[LOCAL_CAP_ADDRESS]
                => /\ U.op = "set_autonegotiation_advertisement"
                   /\ U.pc = "set_ad_write"
           /\ SetAdDone /\ U'.op = "get_autonegotiation_caps"
                => /\ LocalCaps' = Supported(U.arg, DeviceStatus)
                   /\ U'.pc = "get_caps_status" ]_vars

\* get_autonegotiation_caps has returned an advertisement that only a set
\* call can have written: the two requested flags that the status does not
\* support are cleared, and the requested 100BASE-T4, pause and selector are
\* there.
C22_Witness_GetReturnsFilteredAd ==
    /\ GetCapsDone
    /\ ~DeviceStatus.fd_10mbps
    /\ ~DeviceStatus.hd_100base_x
    /\ U.result = << Ad("Std802_3", TRUE, FALSE, FALSE, TRUE, TRUE,
                        "Symmetric") >>

(***************************************************************************)
(* The OUI: PhyIdent::oui of an identifier built by PhyIdent::new.         *)
(***************************************************************************)
\* Second identifier words paired with every first word: no bit, the bits
\* below bit 10, bit 10 alone, alternate bits of 15..10, bits 15..10, every
\* bit.
OuiLsbValues == { 0, Bit(10) - 1, Bit(10), 43008, Word - Bit(10), Word - 1 }

\* First identifier words paired with every second word: no bit, alternate
\* bits, every bit.
OuiMsbValues == { 0, 21845, Word - 1 }

\* PhyIdent::oui of the identifier the program built.
oui(a) ==
    /\ Fresh(a)
    /\ acc' = [acc EXCEPT ![a] =
                 [Enter(a, "oui", acc[a].arg, "idle")
                    EXCEPT !.result = <<PhyIdent_oui(acc[a].arg)>>]]
    /\ UNCHANGED <<regs, ext, exclusive>>

\* The accessors when the program holds PhyIdent::new(w1, w2).
Holding(w1, w2) ==
    [a \in Accessors |->
        IF a = PhyUser
        THEN [new(DevAddr) EXCEPT !.arg = PhyIdent_new(w1, w2)]
        ELSE new(DevAddr)]

\* The program holds PhyIdent::new(w1, w2).
InitOui ==
    /\ regs = Device(0, Bsr_AUTONEG_ABLE, <<0, 0, 0, 0>>, 0)
    /\ ext = [c \in Pages \X PagedRegs |-> 0]
    /\ \/ \E w1 \in Words, w2 \in OuiLsbValues : acc = Holding(w1, w2)
       \/ \E w1 \in OuiMsbValues, w2 \in Words : acc = Holding(w1, w2)
    /\ exclusive = TRUE

NextOui == oui(PhyUser)

SpecOui == InitOui /\ [][NextOui]_vars

=============================================================================
